---- MODULE Spec2Model ----
(***************************************************************************)
(* A model of the 0G Drive ledger contracts:                               *)
(*   OGStorage  (src/unnamed/part_000)      file records and sharing       *)
(*   OGRegistry (src/contracts/OGRegistry.sol)  user profiles and quota    *)
(*   OGFees     (src/contracts/OGFees.sol)      fee collection and sweep   *)
(* Every external function is one action.  A call that reverts leaves the  *)
(* contract state as it was; the call and its outcome are recorded in the  *)
(* variable holding the last call, so that rejected calls are steps too.   *)
(***************************************************************************)
EXTENDS Integers, Sequences, FiniteSets, TLC

(***************************************************************************)
(* Bounds of the model.                                                    *)
(***************************************************************************)
\* block.timestamp ranges over 1..MaxTime
MaxTime == 2
\* at most MaxFiles distinct fileIds ever hold a record in a behaviour
MaxFiles == 2
\* storage sizes and limits range over 0..MaxStorage
MaxStorage == 1
\* the ether there is: balances, amounts and msg.value range over 0..MaxFunds
MaxFunds == 2
\* OGFees emits at most MaxEvents events in a behaviour
MaxEvents == 2
\* at most MaxDepth calls of OGFees are suspended in an external call at a time
MaxDepth == 1
\* Date.now() of the client ranges over 0..MaxMs
MaxMs == 15
\* Math.floor(Math.random() * 1000000) ranges over 0..MaxRandom
MaxRandom == 3
\* at most MaxTags tags are constructed in a behaviour
MaxTags == 2
\* uint256 is modelled as 0..MaxUint: arithmetic beyond MaxUint overflows
MaxUint == 2047

\* address(0)
Zero == "0x0"
\* the account that deployed and initialized the contracts
Deployer == "dep"
\* the accounts that send transactions (msg.sender is never address(0))
Principals == {Deployer, "ann", "bob"}
Addresses == Principals \cup {Zero}
\* the accounts that upload files
Uploaders == {"ann", "bob"}
\* the accounts files are shared with, and the addresses passed to shareFile
Grantees == {"bob"}
ShareInputs == Grantees \cup {Zero}
\* the accounts that register, and the account VERIFIER_ROLE is granted to
Registrants == {"ann", "bob"}
Verifiers == {"bob"}
\* usernames passed to register; "" is the empty string
Usernames == {"alice", "bobby"}
UsernameInputs == Usernames \cup {""}
\* storage sizes and limits
Sizes == 0..MaxStorage
\* content hashes passed to uploadFile; "" is the empty string
RootHashes == {"h"}
RootHashInputs == RootHashes \cup {""}
Times == 1..MaxTime

\* the three contracts, each behind its proxy
Contracts == {"OGStorage", "OGRegistry", "OGFees"}

\* role tags (bytes32 constants of the contracts)
DEFAULT_ADMIN_ROLE == "DEFAULT_ADMIN_ROLE"
ADMIN_ROLE == "ADMIN_ROLE"
OPERATOR_ROLE == "OPERATOR_ROLE"
VERIFIER_ROLE == "VERIFIER_ROLE"

\* outcomes of a call: OK, or the revert reason
OK == "OK"
ErrPaused == "Pausable: paused"
ErrNotPaused == "Pausable: not paused"
ErrMissingRole == "AccessControl: missing role"
ErrEmptyHash == "Root hash cannot be empty"
ErrFileExists == "File already exists"
ErrNoFile == "File does not exist"
ErrNotOwner == "Not file owner"
ErrInvalidAddress == "Invalid address"
ErrAlreadyShared == "Already shared with user"
ErrNotShared == "Not shared with user"
ErrNoAccess == "No access to file"
ErrCounter == "Counter: decrement overflow"
ErrRegistered == "User already registered"
ErrEmptyUsername == "Username cannot be empty"
ErrUsernameTaken == "Username already taken"
ErrNotRegistered == "User not registered"
ErrLimitExceeded == "Storage limit exceeded"
ErrLimitBelowUsed == "New limit below used storage"
ErrInitialized == "Initializable: contract is already initialized"

VARIABLES
    now,            \* block.timestamp of the block being built
    initialized,    \* Initializable._initialized of each contract (behind its proxy)
    files,          \* OGStorage.files: fileId -> File
    userFiles,      \* OGStorage.userFiles: owner -> list of fileIds
    fileCounter,    \* OGStorage._fileCounter
    storagePaused,  \* OGStorage: PausableUpgradeable._paused
    storageRoles,   \* OGStorage: AccessControlUpgradeable._roles, role -> members
    storageLast,    \* the last call made to OGStorage and its outcome
    deleted,        \* history: the fileIds a successful deleteFile has removed
    users,                \* OGRegistry.users: address -> UserProfile
    usernameToAddress,    \* OGRegistry.usernameToAddress
    defaultStorageLimit,  \* OGRegistry.defaultStorageLimit
    registryPaused,       \* OGRegistry: PausableUpgradeable._paused
    registryRoles,        \* OGRegistry: AccessControlUpgradeable._roles
    registryLast,         \* the last call made to OGRegistry and its outcome
    feeConfig,            \* OGFees.feeConfig
    treasury,             \* OGFees.treasury
    discountedUsers,      \* OGFees.discountedUsers, as the set of users mapped to true
    discountPercentage,   \* OGFees.discountPercentage
    feesPaused,           \* OGFees: PausableUpgradeable._paused
    feesRoles,            \* OGFees: AccessControlUpgradeable._roles
    balance,              \* the ether balance of every account, OGFees included
    feesEvents,           \* the log of the events OGFees has emitted
    feesCollected,        \* history: the sum of the amounts of the successful collectFee calls
    feesDistributed,      \* history: the sum of the amounts of the successful distributeFees calls
    feesStack,            \* the calls of OGFees that are suspended in an external call
    feesLast,             \* the last call made to OGFees and its outcome
    orch,                 \* the orchestrated uploads: position, quota read, data stored
    hook,                 \* useUpload: the state of the hook and its uploadFile calls
    msNow,                \* Date.now() of the client, in milliseconds
    tags                  \* the tags returned so far by the tag constructions

storageVars == <<files, userFiles, fileCounter, storagePaused, storageRoles>>
storageAll == <<storageVars, storageLast, deleted>>

registryVars == <<users, usernameToAddress, defaultStorageLimit, registryPaused,
                  registryRoles>>
registryAll == <<registryVars, registryLast>>

\* what a revert of a call of OGFees rolls back
feesVars == <<feeConfig, treasury, discountedUsers, discountPercentage, feesPaused,
              feesRoles, balance, feesEvents, feesCollected, feesDistributed>>
feesAll == <<feesVars, feesStack, feesLast>>

clientAll == <<hook, msNow, tags>>

vars == <<now, initialized, storageAll, registryAll, feesAll, orch, clientAll>>

----------------------------------------------------------------------------
(***************************************************************************)
(* OGStorage                                                               *)
(***************************************************************************)

\* keccak256(abi.encodePacked(rootHash, msg.sender, block.timestamp)): the
\* packed encoding ends in two fixed-width fields, so it determines the
\* triple, and keccak256 is taken to be collision-free: the id is the triple.
fileId(rootHash, sender, timestamp) == <<rootHash, sender, timestamp>>

FileIds == {fileId(h, s, t) : h \in RootHashes, s \in Uploaders, t \in Times}

\* a storage slot of `files` that was never written
NoFile == [rootHash |-> "", owner |-> Zero, timestamp |-> 0, exists |-> FALSE,
           sharedWith |-> {}]

\* `delete files[fileId]`: resets the value-typed members of the struct.  A
\* mapping member is skipped by delete, so sharedWith keeps its entries.
deleteRecord(f) ==
    [f EXCEPT !.rootHash = "", !.owner = Zero, !.timestamp = 0, !.exists = FALSE]

\* the loop of deleteFile: the first occurrence of id is overwritten by the
\* last element and the list is popped; the list is unchanged without id.
RECURSIVE indexOf(_, _, _)
indexOf(list, id, i) ==
    IF i > Len(list) THEN 0
    ELSE IF list[i] = id THEN i
    ELSE indexOf(list, id, i + 1)

removeUserFileNoPop(list, id) == list
removeUserFileNoSwap(list, id) ==
    IF indexOf(list, id, 1) = 0 THEN list ELSE SubSeq(list, 1, Len(list) - 1)
removeUserFile(list, id) ==
    LET i == indexOf(list, id, 1) IN
    IF i = 0 THEN list
    ELSE SubSeq([list EXCEPT ![i] = list[Len(list)]], 1, Len(list) - 1)

\* onlyRole(role)
hasStorageRole(role, account) == account \in storageRoles[role]

\* hasAccess(fileId, user)
hasAccessNoExists(id, user) ==
    files[id].owner = user \/ user \in files[id].sharedWith
hasAccess(id, user) ==
    IF ~files[id].exists THEN FALSE
    ELSE files[id].owner = user \/ user \in files[id].sharedWith

\* the outcome of uploadFile(rootHash) sent by sender
uploadFileResultNoExists(sender, rootHash) ==
    IF storagePaused THEN ErrPaused
    ELSE IF rootHash = "" THEN ErrEmptyHash
    ELSE OK
uploadFileResult(sender, rootHash) ==
    IF storagePaused THEN ErrPaused
    ELSE IF rootHash = "" THEN ErrEmptyHash
    ELSE IF files[fileId(rootHash, sender, now)].exists THEN ErrFileExists
    ELSE OK

shareFileResultNoOwner(sender, id, user) ==
    IF storagePaused THEN ErrPaused
    ELSE IF ~files[id].exists THEN ErrNoFile
    ELSE IF user = Zero THEN ErrInvalidAddress
    ELSE IF user \in files[id].sharedWith THEN ErrAlreadyShared
    ELSE OK
shareFileResultNoPause(sender, id, user) ==
    IF ~files[id].exists THEN ErrNoFile
    ELSE IF files[id].owner # sender THEN ErrNotOwner
    ELSE IF user = Zero THEN ErrInvalidAddress
    ELSE IF user \in files[id].sharedWith THEN ErrAlreadyShared
    ELSE OK
shareFileResult(sender, id, user) ==
    IF storagePaused THEN ErrPaused
    ELSE IF ~files[id].exists THEN ErrNoFile
    ELSE IF files[id].owner # sender THEN ErrNotOwner
    ELSE IF user = Zero THEN ErrInvalidAddress
    ELSE IF user \in files[id].sharedWith THEN ErrAlreadyShared
    ELSE OK

unshareFileResultNoShared(sender, id, user) ==
    IF storagePaused THEN ErrPaused
    ELSE IF ~files[id].exists THEN ErrNoFile
    ELSE IF files[id].owner # sender THEN ErrNotOwner
    ELSE OK
unshareFileResult(sender, id, user) ==
    IF storagePaused THEN ErrPaused
    ELSE IF ~files[id].exists THEN ErrNoFile
    ELSE IF files[id].owner # sender THEN ErrNotOwner
    ELSE IF user \notin files[id].sharedWith THEN ErrNotShared
    ELSE OK

deleteFileResult(sender, id) ==
    IF storagePaused THEN ErrPaused
    ELSE IF ~files[id].exists THEN ErrNoFile
    ELSE IF files[id].owner # sender THEN ErrNotOwner
    ELSE IF fileCounter = 0 THEN ErrCounter
    ELSE OK

getFileResultNoAccess(sender, id) ==
    IF ~files[id].exists THEN ErrNoFile ELSE OK
getFileResult(sender, id) ==
    IF ~files[id].exists THEN ErrNoFile
    ELSE IF ~hasAccess(id, sender) THEN ErrNoAccess
    ELSE OK

\* the record of a call: what was called, by whom, and the outcome (the
\* arguments are not kept)
StorageCall(op, sender, id, user, result) ==
    [op |-> op, sender |-> sender, result |-> result]

NoId == <<>>

\* the fileIds that hold or have held a record
usedIds == {id \in FileIds : files[id].exists} \cup deleted

uploadFile(sender, rootHash) ==
    LET result == uploadFileResult(sender, rootHash)
        id == fileId(rootHash, sender, now)
    IN  /\ rootHash # "" => id \in usedIds \/ Cardinality(usedIds) < MaxFiles
        /\ storageLast' = StorageCall("uploadFile", sender,
                                      IF rootHash = "" THEN NoId ELSE id, Zero, result)
        /\ IF result = OK
           THEN /\ files' = [files EXCEPT ![id] =
                        [@ EXCEPT !.rootHash = rootHash, !.owner = sender,
                                  !.timestamp = now, !.exists = TRUE]]
                /\ userFiles' = [userFiles EXCEPT ![sender] = Append(@, id)]
                /\ fileCounter' = fileCounter + 1
           ELSE UNCHANGED <<files, userFiles, fileCounter>>
        /\ UNCHANGED <<now, initialized, registryAll, feesAll, orch, clientAll, storagePaused, storageRoles, deleted>>

shareFileAndTransfer(sender, id, user) ==
    LET result == shareFileResult(sender, id, user)
    IN  /\ storageLast' = StorageCall("shareFile", sender, id, user, result)
        /\ IF result = OK
           THEN files' = [files EXCEPT ![id].sharedWith = @ \cup {user},
                                       ![id].owner = user]
           ELSE UNCHANGED files
        /\ UNCHANGED <<now, initialized, registryAll, feesAll, orch, clientAll, userFiles, fileCounter, storagePaused,
                       storageRoles,
                       deleted>>

shareFile(sender, id, user) ==
    LET result == shareFileResult(sender, id, user)
    IN  /\ storageLast' = StorageCall("shareFile", sender, id, user, result)
        /\ IF result = OK
           THEN files' = [files EXCEPT ![id].sharedWith = @ \cup {user}]
           ELSE UNCHANGED files
        /\ UNCHANGED <<now, initialized, registryAll, feesAll, orch, clientAll, userFiles, fileCounter, storagePaused,
                       storageRoles,
                       deleted>>

unshareFile(sender, id, user) ==
    LET result == unshareFileResult(sender, id, user)
    IN  /\ storageLast' = StorageCall("unshareFile", sender, id, user, result)
        /\ IF result = OK
           THEN files' = [files EXCEPT ![id].sharedWith = @ \ {user}]
           ELSE UNCHANGED files
        /\ UNCHANGED <<now, initialized, registryAll, feesAll, orch, clientAll, userFiles, fileCounter, storagePaused,
                       storageRoles,
                       deleted>>

deleteFile(sender, id) ==
    LET result == deleteFileResult(sender, id)
    IN  /\ storageLast' = StorageCall("deleteFile", sender, id, Zero, result)
        /\ IF result = OK
           THEN /\ files' = [files EXCEPT ![id] = deleteRecord(@)]
                /\ userFiles' = [userFiles EXCEPT
                        ![sender] = removeUserFile(@, id)]
                /\ fileCounter' = fileCounter - 1
                /\ deleted' = deleted \cup {id}
           ELSE UNCHANGED <<files, userFiles, fileCounter, deleted>>
        /\ UNCHANGED <<now, initialized, registryAll, feesAll, orch, clientAll, storagePaused, storageRoles>>

\* getFile(fileId), a view function: the call, its argument and what it
\* returned are recorded
getFile(sender, id) ==
    LET result == getFileResult(sender, id)
    IN  /\ storageLast' = StorageCall("getFile", sender, id, Zero, result)
                              @@ (IF result = OK
                                  THEN [id |-> id,
                                        returned |-> <<files[id].rootHash, files[id].owner,
                                                       files[id].timestamp>>]
                                  ELSE [id |-> id])
        /\ UNCHANGED <<now, initialized, registryAll, feesAll, orch, clientAll, storageVars, deleted>>

\* pause(): onlyRole(ADMIN_ROLE), then _pause() (whenNotPaused)
storagePauseResult(sender) ==
    IF ~hasStorageRole(ADMIN_ROLE, sender) THEN ErrMissingRole
    ELSE IF storagePaused THEN ErrPaused
    ELSE OK

\* unpause(): onlyRole(ADMIN_ROLE), then _unpause() (whenPaused)
storageUnpauseResultWhenNotPaused(sender) ==
    IF ~hasStorageRole(ADMIN_ROLE, sender) THEN ErrMissingRole
    ELSE IF storagePaused THEN ErrPaused
    ELSE OK
storageUnpauseResult(sender) ==
    IF ~hasStorageRole(ADMIN_ROLE, sender) THEN ErrMissingRole
    ELSE IF ~storagePaused THEN ErrNotPaused
    ELSE OK

storagePause(sender) ==
    LET result == storagePauseResult(sender)
    IN  /\ storageLast' = StorageCall("pause", sender, NoId, Zero, result)
        /\ storagePaused' = IF result = OK THEN TRUE ELSE storagePaused
        /\ UNCHANGED <<now, initialized, registryAll, feesAll, orch, clientAll, files, userFiles, fileCounter, storageRoles,
                       deleted>>

storageUnpause(sender) ==
    LET result == storageUnpauseResult(sender)
    IN  /\ storageLast' = StorageCall("unpause", sender, NoId, Zero, result)
        /\ storagePaused' = IF result = OK THEN FALSE ELSE storagePaused
        /\ UNCHANGED <<now, initialized, registryAll, feesAll, orch, clientAll, files, userFiles, fileCounter, storageRoles,
                       deleted>>

\* grantRole(role, account): onlyRole(getRoleAdmin(role)), and the admin role
\* of every role is DEFAULT_ADMIN_ROLE
storageGrantRoleNoCheck(sender, role, account) ==
    /\ storageLast' = StorageCall("grantRole", sender, NoId, account, OK)
    /\ storageRoles' = [storageRoles EXCEPT ![role] = @ \cup {account}]
    /\ UNCHANGED <<now, initialized, registryAll, feesAll, orch, clientAll, files, userFiles, fileCounter,
                   storagePaused, deleted>>
storageGrantRole(sender, role, account) ==
    LET result == IF ~hasStorageRole(DEFAULT_ADMIN_ROLE, sender)
                  THEN ErrMissingRole ELSE OK
    IN  /\ storageLast' = StorageCall("grantRole", sender, NoId, account, result)
        /\ storageRoles' = IF result = OK
                           THEN [storageRoles EXCEPT ![role] = @ \cup {account}]
                           ELSE storageRoles
        /\ UNCHANGED <<now, initialized, registryAll, feesAll, orch, clientAll, files, userFiles, fileCounter,
                       storagePaused, deleted>>

\* revokeRole(role, account): onlyRole(getRoleAdmin(role))
storageRevokeRole(sender, role, account) ==
    LET result == IF ~hasStorageRole(DEFAULT_ADMIN_ROLE, sender)
                  THEN ErrMissingRole ELSE OK
    IN  /\ storageLast' = StorageCall("revokeRole", sender, NoId, account, result)
        /\ storageRoles' = IF result = OK
                           THEN [storageRoles EXCEPT ![role] = @ \ {account}]
                           ELSE storageRoles
        /\ UNCHANGED <<now, initialized, registryAll, feesAll, orch, clientAll, files, userFiles, fileCounter,
                       storagePaused, deleted>>

\* renounceRole(role, account): the sender gives up a role of its own
storageRenounceRole(sender, role, account) ==
    LET result == IF account # sender
                  THEN "AccessControl: can only renounce roles for self" ELSE OK
    IN  /\ storageLast' = StorageCall("renounceRole", sender, NoId, account, result)
        /\ storageRoles' = IF result = OK
                           THEN [storageRoles EXCEPT ![role] = @ \ {account}]
                           ELSE storageRoles
        /\ UNCHANGED <<now, initialized, registryAll, feesAll, orch, clientAll, files, userFiles, fileCounter,
                       storagePaused, deleted>>

----------------------------------------------------------------------------
(***************************************************************************)
(* OGRegistry                                                              *)
(***************************************************************************)

\* a storage slot of `users` that was never written
NoUser == [isRegistered |-> FALSE, username |-> "", storageLimit |-> 0,
           usedStorage |-> 0, registrationDate |-> 0]

\* onlyRole(role)
hasRegistryRole(role, account) == account \in registryRoles[role]

\* the outcome of register(username) sent by sender
registerResultNoTaken(sender, username) ==
    IF registryPaused THEN ErrPaused
    ELSE IF users[sender].isRegistered THEN ErrRegistered
    ELSE IF username = "" THEN ErrEmptyUsername
    ELSE OK
registerResultNoRegistered(sender, username) ==
    IF registryPaused THEN ErrPaused
    ELSE IF username = "" THEN ErrEmptyUsername
    ELSE IF usernameToAddress[username] # Zero THEN ErrUsernameTaken
    ELSE OK
registerResult(sender, username) ==
    IF registryPaused THEN ErrPaused
    ELSE IF users[sender].isRegistered THEN ErrRegistered
    ELSE IF username = "" THEN ErrEmptyUsername
    ELSE IF usernameToAddress[username] # Zero THEN ErrUsernameTaken
    ELSE OK

\* the outcome of updateUsedStorage(user, newUsedStorage) sent by sender
updateUsedStorageResultNoRole(sender, user, newUsedStorage) ==
    IF ~users[user].isRegistered THEN ErrNotRegistered
    ELSE IF ~(newUsedStorage <= users[user].storageLimit) THEN ErrLimitExceeded
    ELSE OK
updateUsedStorageResult(sender, user, newUsedStorage) ==
    IF ~hasRegistryRole(VERIFIER_ROLE, sender) THEN ErrMissingRole
    ELSE IF ~users[user].isRegistered THEN ErrNotRegistered
    ELSE IF ~(newUsedStorage <= users[user].storageLimit) THEN ErrLimitExceeded
    ELSE OK

\* the outcome of updateStorageLimit(user, newLimit) sent by sender
updateStorageLimitResultNoCheck(sender, user, newLimit) ==
    IF ~hasRegistryRole(ADMIN_ROLE, sender) THEN ErrMissingRole
    ELSE IF ~users[user].isRegistered THEN ErrNotRegistered
    ELSE OK
updateStorageLimitResult(sender, user, newLimit) ==
    IF ~hasRegistryRole(ADMIN_ROLE, sender) THEN ErrMissingRole
    ELSE IF ~users[user].isRegistered THEN ErrNotRegistered
    ELSE IF ~(newLimit >= users[user].usedStorage) THEN ErrLimitBelowUsed
    ELSE OK

\* the outcome of updateDefaultStorageLimit(newLimit) sent by sender
updateDefaultStorageLimitResult(sender, newLimit) ==
    IF ~hasRegistryRole(ADMIN_ROLE, sender) THEN ErrMissingRole ELSE OK

\* the record of a call: what was called and the outcome (the sender is
\* not kept)
RegistryCall(op, sender, result) ==
    [op |-> op, result |-> result]

\* getAddressByUsername(username), a view function
getAddressByUsername(username) ==
    IF usernameToAddress[username] = Zero
    THEN [result |-> "Username not registered"]
    ELSE [result |-> OK, returned |-> usernameToAddress[username]]

registerNoIndex(sender, username) ==
    LET result == registerResult(sender, username)
    IN  /\ registryLast' = RegistryCall("register", sender, result)
        /\ IF result = OK
           THEN users' = [users EXCEPT ![sender] =
                        [isRegistered |-> TRUE, username |-> username,
                         storageLimit |-> defaultStorageLimit, usedStorage |-> 0,
                         registrationDate |-> now]]
           ELSE UNCHANGED users
        /\ UNCHANGED <<now, initialized, storageAll, feesAll, orch, clientAll, usernameToAddress,
                       defaultStorageLimit, registryPaused, registryRoles>>

register(sender, username) ==
    LET result == registerResult(sender, username)
    IN  /\ registryLast' = RegistryCall("register", sender, result)
        /\ IF result = OK
           THEN /\ users' = [users EXCEPT ![sender] =
                        [isRegistered |-> TRUE, username |-> username,
                         storageLimit |-> defaultStorageLimit, usedStorage |-> 0,
                         registrationDate |-> now]]
                /\ usernameToAddress' = [usernameToAddress EXCEPT ![username] = sender]
           ELSE UNCHANGED <<users, usernameToAddress>>
        /\ UNCHANGED <<now, initialized, storageAll, feesAll, orch, clientAll, defaultStorageLimit, registryPaused,
                       registryRoles>>

updateUsedStorageByDelta(sender, user, newUsedStorage) ==
    LET result == updateUsedStorageResult(sender, user, newUsedStorage)
    IN  /\ registryLast' = RegistryCall("updateUsedStorage", sender, result)
        /\ IF result = OK
           THEN users' = [users EXCEPT ![user].usedStorage = @ + newUsedStorage]
           ELSE UNCHANGED users
        /\ UNCHANGED <<now, initialized, storageAll, feesAll, orch, clientAll, usernameToAddress, defaultStorageLimit,
                       registryPaused,
                       registryRoles>>

updateUsedStorage(sender, user, newUsedStorage) ==
    LET result == updateUsedStorageResult(sender, user, newUsedStorage)
    IN  /\ registryLast' = RegistryCall("updateUsedStorage", sender, result)
        /\ IF result = OK
           THEN users' = [users EXCEPT ![user].usedStorage = newUsedStorage]
           ELSE UNCHANGED users
        /\ UNCHANGED <<now, initialized, storageAll, feesAll, orch, clientAll, usernameToAddress, defaultStorageLimit,
                       registryPaused,
                       registryRoles>>

updateStorageLimit(sender, user, newLimit) ==
    LET result == updateStorageLimitResult(sender, user, newLimit)
    IN  /\ registryLast' = RegistryCall("updateStorageLimit", sender, result)
        /\ IF result = OK
           THEN users' = [users EXCEPT ![user].storageLimit = newLimit]
           ELSE UNCHANGED users
        /\ UNCHANGED <<now, initialized, storageAll, feesAll, orch, clientAll, usernameToAddress, defaultStorageLimit,
                       registryPaused,
                       registryRoles>>

updateDefaultStorageLimitForAll(sender, newLimit) ==
    LET result == updateDefaultStorageLimitResult(sender, newLimit)
    IN  /\ registryLast' = RegistryCall("updateDefaultStorageLimit", sender, result)
        /\ defaultStorageLimit' = IF result = OK THEN newLimit ELSE defaultStorageLimit
        /\ users' = IF result = OK
                    THEN [p \in Principals |->
                            IF users[p].isRegistered
                            THEN [users[p] EXCEPT !.storageLimit = newLimit]
                            ELSE users[p]]
                    ELSE users
        /\ UNCHANGED <<now, initialized, storageAll, feesAll, orch, clientAll, usernameToAddress, registryPaused,
                       registryRoles>>

updateDefaultStorageLimit(sender, newLimit) ==
    LET result == updateDefaultStorageLimitResult(sender, newLimit)
    IN  /\ registryLast' = RegistryCall("updateDefaultStorageLimit", sender, result)
        /\ defaultStorageLimit' = IF result = OK THEN newLimit ELSE defaultStorageLimit
        /\ UNCHANGED <<now, initialized, storageAll, feesAll, orch, clientAll, users, usernameToAddress, registryPaused,
                       registryRoles>>

\* pause(): onlyRole(ADMIN_ROLE), then _pause() (whenNotPaused)
registryPauseResult(sender) ==
    IF ~hasRegistryRole(ADMIN_ROLE, sender) THEN ErrMissingRole
    ELSE IF registryPaused THEN ErrPaused
    ELSE OK

\* unpause(): onlyRole(ADMIN_ROLE), then _unpause() (whenPaused)
registryUnpauseResult(sender) ==
    IF ~hasRegistryRole(ADMIN_ROLE, sender) THEN ErrMissingRole
    ELSE IF ~registryPaused THEN ErrNotPaused
    ELSE OK

registryPause(sender) ==
    LET result == registryPauseResult(sender)
    IN  /\ registryLast' = RegistryCall("pause", sender, result)
        /\ registryPaused' = IF result = OK THEN TRUE ELSE registryPaused
        /\ UNCHANGED <<now, initialized, storageAll, feesAll, orch, clientAll, users, usernameToAddress, defaultStorageLimit,
                       registryRoles>>

registryUnpause(sender) ==
    LET result == registryUnpauseResult(sender)
    IN  /\ registryLast' = RegistryCall("unpause", sender, result)
        /\ registryPaused' = IF result = OK THEN FALSE ELSE registryPaused
        /\ UNCHANGED <<now, initialized, storageAll, feesAll, orch, clientAll, users, usernameToAddress, defaultStorageLimit,
                       registryRoles>>

\* grantRole(role, account): onlyRole(getRoleAdmin(role)); the admin role of
\* every role is DEFAULT_ADMIN_ROLE, no contract calls _setRoleAdmin
grantRoleResult(sender, role) ==
    IF ~hasRegistryRole(DEFAULT_ADMIN_ROLE, sender) THEN ErrMissingRole ELSE OK

registryGrantRole(sender, role, account) ==
    LET result == grantRoleResult(sender, role)
    IN  /\ registryLast' = RegistryCall("grantRole", sender, result)
        /\ registryRoles' = IF result = OK
                            THEN [registryRoles EXCEPT ![role] = @ \cup {account}]
                            ELSE registryRoles
        /\ UNCHANGED <<now, initialized, storageAll, feesAll, orch, clientAll, users, usernameToAddress, defaultStorageLimit,
                       registryPaused>>

\* revokeRole(role, account): onlyRole(getRoleAdmin(role))
registryRevokeRole(sender, role, account) ==
    LET result == grantRoleResult(sender, role)
    IN  /\ registryLast' = RegistryCall("revokeRole", sender, result)
        /\ registryRoles' = IF result = OK
                            THEN [registryRoles EXCEPT ![role] = @ \ {account}]
                            ELSE registryRoles
        /\ UNCHANGED <<now, initialized, storageAll, feesAll, orch, clientAll, users, usernameToAddress, defaultStorageLimit,
                       registryPaused>>

\* renounceRole(role, account): the sender gives up a role of its own
registryRenounceRole(sender, role, account) ==
    LET result == IF account # sender
                  THEN "AccessControl: can only renounce roles for self" ELSE OK
    IN  /\ registryLast' = RegistryCall("renounceRole", sender, result)
        /\ registryRoles' = IF result = OK
                            THEN [registryRoles EXCEPT ![role] = @ \ {account}]
                            ELSE registryRoles
        /\ UNCHANGED <<now, initialized, storageAll, feesAll, orch, clientAll, users, usernameToAddress,
                       defaultStorageLimit, registryPaused>>

\* OGRegistry after initialize(limit) sent by Deployer
RegistryInit(limit) ==
    /\ users = [p \in Principals |-> NoUser]
    /\ usernameToAddress = [u \in UsernameInputs |-> Zero]
    /\ defaultStorageLimit = limit
    /\ registryPaused = FALSE
    /\ registryRoles = [r \in {DEFAULT_ADMIN_ROLE, ADMIN_ROLE, VERIFIER_ROLE} |->
                           IF r = VERIFIER_ROLE THEN {} ELSE {Deployer}]
    /\ registryLast = RegistryCall("initialize", Deployer, OK)

----------------------------------------------------------------------------
(***************************************************************************)
(* OGFees                                                                  *)
(* collectFee and distributeFees hand control to the receiver of the ether *)
(* they send (`call` forwards all gas): such a call is suspended on        *)
(* feesStack until the receiver's code returns or fails, and meanwhile the *)
(* receiver's code is the only caller there is.                            *)
(***************************************************************************)

\* address(this) of OGFees
Ledger == "fees"
FeeAccounts == Principals \cup {Ledger}
\* the user argument of collectFee and of the discount functions
Payers == {"ann"}
\* the addresses passed to updateTreasury
TreasuryInputs == {"ann", Zero}
\* the account roles are granted to and revoked from
RoleGrantees == {"ann"}
\* amounts of ether
Amounts == 0..MaxFunds
\* the fee configurations passed to updateFeeConfig
FeeConfigInputs ==
    {[baseStorageFee |-> 2, networkFee |-> 1, sharingFee |-> 0, minimumFee |-> 0],
     [baseStorageFee |-> 1, networkFee |-> 0, sharingFee |-> 0, minimumFee |-> MaxUint],
     [baseStorageFee |-> MaxUint, networkFee |-> 0, sharingFee |-> 0, minimumFee |-> 0],
     [baseStorageFee |-> 1, networkFee |-> MaxUint, sharingFee |-> 0, minimumFee |-> 0]}
\* the percentages passed to updateDiscountPercentage
PercentageInputs == {0, 100, 101}
\* the sizes and amounts passed to the fee calculations
UintInputs == {0, 1, 2, 3, MaxUint}

FEE_MANAGER_ROLE == "FEE_MANAGER_ROLE"

ErrInsufficientFee == "Insufficient fee"
ErrReturnExcess == "Failed to return excess fee"
ErrNoFees == "No fees to distribute"
ErrDistribute == "Failed to distribute fees"
\* Panic(0x11): checked arithmetic overflowed or underflowed
ErrOverflow == "Panic(0x11)"
\* not an outcome: the call is suspended in its external call
InTransfer == "in transfer"

\* the events of OGFees are tuples of the event's name and its arguments
FeeCollected(user, amount, feeType) == <<"FeeCollected", user, amount, feeType>>
FeeDistributed(recipient, amount) == <<"FeeDistributed", recipient, amount>>

\* onlyRole(role)
hasFeesRole(role, account) == account \in feesRoles[role]

\* the record of a call: what was called and the outcome
FeesCall(op, result) == [op |-> op, result |-> result]

\* the state a revert restores
feesSnapshot ==
    [feeConfig |-> feeConfig, treasury |-> treasury,
     discountedUsers |-> discountedUsers, discountPercentage |-> discountPercentage,
     feesPaused |-> feesPaused, feesRoles |-> feesRoles, balance |-> balance,
     feesEvents |-> feesEvents, feesCollected |-> feesCollected,
     feesDistributed |-> feesDistributed]

\* a revert: every change made since the snapshot was taken is undone
feesRevert(saved) ==
    /\ feeConfig' = saved.feeConfig
    /\ treasury' = saved.treasury
    /\ discountedUsers' = saved.discountedUsers
    /\ discountPercentage' = saved.discountPercentage
    /\ feesPaused' = saved.feesPaused
    /\ feesRoles' = saved.feesRoles
    /\ balance' = saved.balance
    /\ feesEvents' = saved.feesEvents
    /\ feesCollected' = saved.feesCollected
    /\ feesDistributed' = saved.feesDistributed

\* a call suspended in `to.call{value: ...}("")`: the function, the receiver
\* whose code is running, the amount of the call (the fee of collectFee, the
\* balance swept by distributeFees) and the state before the call
FeesFrame(op, to, amount) ==
    [op |-> op, to |-> to, amount |-> amount, saved |-> feesSnapshot]

\* who can call: anyone between transactions; during an external call only
\* the code of its receiver
MayCall(sender) ==
    IF feesStack = <<>> THEN TRUE ELSE sender = feesStack[Len(feesStack)].to

\* msg.value: the deployer funds its calls, the other callers attach nothing
Values(sender) ==
    IF sender = Deployer THEN 0..balance[sender] ELSE {0}

\* the log has room for one more event, beside the FeeDistributed events the
\* suspended distributeFees calls will emit
LogRoom ==
    Len(feesEvents)
      + Cardinality({i \in DOMAIN feesStack : feesStack[i].op = "distributeFees"})
        < MaxEvents

\* the outcome of collectFee(user, amount, feeType) sent with msg.value, up
\* to the refund
collectFeeResultNoValueCheck(sender, amount, value) ==
    IF feesPaused THEN ErrPaused
    ELSE IF ~hasFeesRole(FEE_MANAGER_ROLE, sender) THEN ErrMissingRole
    ELSE OK
collectFeeResult(sender, amount, value) ==
    IF feesPaused THEN ErrPaused
    ELSE IF ~hasFeesRole(FEE_MANAGER_ROLE, sender) THEN ErrMissingRole
    ELSE IF ~(value >= amount) THEN ErrInsufficientFee
    ELSE OK

\* msg.value - amount, the ether collectFee sends back to user
excessKeepAll(amount, value) == 0
excess(amount, value) == IF value > amount THEN value - amount ELSE 0

\* collectFee up to the end of its external call: the value is received, the
\* event emitted and the excess sent to user, whose code then runs
collectFee(sender, user, amount, feeType, value) ==
    LET result == collectFeeResult(sender, amount, value)
        back == excess(amount, value)
    IN  /\ MayCall(sender)
        /\ value \in Values(sender)
        /\ result = OK => LogRoom /\ (back > 0 => Len(feesStack) < MaxDepth)
        /\ IF result # OK
           THEN /\ feesLast' = FeesCall("collectFee", result)
                /\ UNCHANGED <<balance, feesEvents, feesCollected, feesStack>>
           ELSE /\ feesEvents' = Append(feesEvents, FeeCollected(user, amount, feeType))
                /\ feesCollected' = feesCollected + amount
                /\ balance' = [a \in FeeAccounts |->
                        balance[a]
                          - (IF a = sender THEN value ELSE 0)
                          + (IF a = Ledger THEN value - back ELSE 0)
                          + (IF a = user THEN back ELSE 0)]
                /\ IF back > 0
                   THEN /\ feesStack' = Append(feesStack,
                                               FeesFrame("collectFee", user, amount))
                        /\ feesLast' = FeesCall("collectFee", InTransfer)
                   ELSE /\ UNCHANGED feesStack
                        /\ feesLast' = FeesCall("collectFee", OK)
        /\ UNCHANGED <<now, initialized, storageAll, registryAll, orch, clientAll, feeConfig, treasury,
                       discountedUsers, discountPercentage, feesPaused, feesRoles,
                       feesDistributed>>

\* the outcome of distributeFees() up to the transfer
distributeFeesResultNoBalanceCheck(sender) ==
    IF ~hasFeesRole(ADMIN_ROLE, sender) THEN ErrMissingRole ELSE OK
distributeFeesResult(sender) ==
    IF ~hasFeesRole(ADMIN_ROLE, sender) THEN ErrMissingRole
    ELSE IF ~(balance[Ledger] > 0) THEN ErrNoFees
    ELSE OK

\* distributeFees up to the end of its external call: the whole balance is
\* sent to treasury, whose code then runs; the event is not yet emitted
distributeFees(sender) ==
    LET result == distributeFeesResult(sender)
        swept == balance[Ledger]
    IN  /\ MayCall(sender)
        /\ result = OK => LogRoom /\ Len(feesStack) < MaxDepth
        /\ IF result # OK
           THEN /\ feesLast' = FeesCall("distributeFees", result)
                /\ UNCHANGED <<balance, feesDistributed, feesStack>>
           ELSE /\ balance' = [a \in FeeAccounts |->
                        balance[a]
                          - (IF a = Ledger THEN swept ELSE 0)
                          + (IF a = treasury THEN swept ELSE 0)]
                /\ feesDistributed' = feesDistributed + swept
                /\ feesStack' = Append(feesStack,
                                       FeesFrame("distributeFees", treasury, swept))
                /\ feesLast' = FeesCall("distributeFees", InTransfer)
        /\ UNCHANGED <<now, initialized, storageAll, registryAll, orch, clientAll, feeConfig, treasury,
                       discountedUsers, discountPercentage, feesPaused, feesRoles,
                       feesEvents, feesCollected>>

\* the receiver's code returns: `success` is true, and the suspended call
\* runs to its end (distributeFees emits its event, naming the treasury of now)
transferReturns ==
    /\ feesStack # <<>>
    /\ LET top == feesStack[Len(feesStack)]
       IN  /\ feesStack' = SubSeq(feesStack, 1, Len(feesStack) - 1)
           /\ feesEvents' = IF top.op = "distributeFees"
                            THEN Append(feesEvents, FeeDistributed(treasury, top.amount))
                            ELSE feesEvents
           /\ feesLast' = FeesCall(top.op, OK)
    /\ UNCHANGED <<now, initialized, storageAll, registryAll, orch, clientAll, feeConfig, treasury,
                   discountedUsers, discountPercentage, feesPaused, feesRoles,
                   balance, feesCollected, feesDistributed>>

\* the receiver's code fails: `success` is false, the require fails and the
\* suspended call reverts, with everything done since it began
transferFails ==
    /\ feesStack # <<>>
    /\ LET top == feesStack[Len(feesStack)]
       IN  /\ feesStack' = SubSeq(feesStack, 1, Len(feesStack) - 1)
           /\ feesRevert(top.saved)
           /\ feesLast' = FeesCall(top.op, IF top.op = "collectFee"
                                           THEN ErrReturnExcess ELSE ErrDistribute)
    /\ UNCHANGED <<now, initialized, storageAll, registryAll, orch, clientAll>>

\* receive(): a plain transfer of ether to OGFees
receiveEther(sender, value) ==
    /\ MayCall(sender)
    /\ value \in Values(sender) \ {0}
    /\ balance' = [balance EXCEPT ![sender] = @ - value, ![Ledger] = @ + value]
    /\ feesLast' = FeesCall("receive", OK)
    /\ UNCHANGED <<now, initialized, storageAll, registryAll, orch, clientAll, feeConfig, treasury,
                   discountedUsers, discountPercentage, feesPaused, feesRoles,
                   feesEvents, feesCollected, feesDistributed, feesStack>>

\* calculateStorageFee(size): what the call returns, or the panic of the
\* checked multiplication or addition
calculateStorageFeeResultNoMinimum(size) ==
    LET product == size * feeConfig.baseStorageFee
        fee == product + feeConfig.networkFee
    IN  IF product > MaxUint \/ fee > MaxUint THEN [result |-> ErrOverflow]
        ELSE [result |-> OK, returned |-> fee]
calculateStorageFeeResult(size) ==
    LET product == size * feeConfig.baseStorageFee
        fee == product + feeConfig.networkFee
    IN  IF product > MaxUint \/ fee > MaxUint THEN [result |-> ErrOverflow]
        ELSE IF fee < feeConfig.minimumFee
             THEN [result |-> OK, returned |-> feeConfig.minimumFee]
        ELSE [result |-> OK, returned |-> fee]

\* a call of the view function: the call, its argument and what it returned
\* are recorded
calculateStorageFee(size) ==
    /\ feesLast' = [op |-> "calculateStorageFee", size |-> size]
                        @@ calculateStorageFeeResult(size)
    /\ UNCHANGED <<now, initialized, storageAll, registryAll, orch, clientAll, feesVars, feesStack>>

\* applyDiscount(user, amount): what the call returns, or the panic of the
\* checked multiplication or subtraction
applyDiscountResultForAll(user, amount) ==
    LET product == amount * discountPercentage
        discount == product \div 100
    IN  IF product > MaxUint \/ discount > amount THEN [result |-> ErrOverflow]
        ELSE [result |-> OK, returned |-> amount - discount]
applyDiscountResult(user, amount) ==
    LET product == amount * discountPercentage
        discount == product \div 100
    IN  IF user \notin discountedUsers THEN [result |-> OK, returned |-> amount]
        ELSE IF product > MaxUint \/ discount > amount THEN [result |-> ErrOverflow]
        ELSE [result |-> OK, returned |-> amount - discount]

applyDiscount(user, amount) ==
    /\ feesLast' = [op |-> "applyDiscount", user |-> user, amount |-> amount]
                        @@ applyDiscountResult(user, amount)
    /\ UNCHANGED <<now, initialized, storageAll, registryAll, orch, clientAll, feesVars, feesStack>>

\* updateFeeConfig(...): onlyRole(ADMIN_ROLE)
updateFeeConfigResult(sender, config) ==
    IF ~hasFeesRole(ADMIN_ROLE, sender) THEN ErrMissingRole ELSE OK

updateFeeConfig(sender, config) ==
    LET result == updateFeeConfigResult(sender, config)
    IN  /\ MayCall(sender)
        /\ result = OK => LogRoom
        /\ feesLast' = FeesCall("updateFeeConfig", result)
        /\ IF result = OK
           THEN /\ feeConfig' = config
                /\ feesEvents' = Append(feesEvents, <<"FeeConfigUpdated", config>>)
           ELSE UNCHANGED <<feeConfig, feesEvents>>
        /\ UNCHANGED <<now, initialized, storageAll, registryAll, orch, clientAll, treasury, discountedUsers,
                       discountPercentage, feesPaused, feesRoles, balance,
                       feesCollected, feesDistributed, feesStack>>

\* updateTreasury(_treasury): onlyRole(ADMIN_ROLE)
updateTreasuryResult(sender, newTreasury) ==
    IF ~hasFeesRole(ADMIN_ROLE, sender) THEN ErrMissingRole
    ELSE IF newTreasury = Zero THEN "Invalid treasury address"
    ELSE OK

updateTreasury(sender, newTreasury) ==
    LET result == updateTreasuryResult(sender, newTreasury)
    IN  /\ MayCall(sender)
        /\ result = OK => LogRoom
        /\ feesLast' = FeesCall("updateTreasury", result)
        /\ IF result = OK
           THEN /\ treasury' = newTreasury
                /\ feesEvents' = Append(feesEvents, <<"TreasuryUpdated", treasury, newTreasury>>)
           ELSE UNCHANGED <<treasury, feesEvents>>
        /\ UNCHANGED <<now, initialized, storageAll, registryAll, orch, clientAll, feeConfig, discountedUsers,
                       discountPercentage, feesPaused, feesRoles, balance,
                       feesCollected, feesDistributed, feesStack>>

\* addDiscountedUser(user): onlyRole(FEE_MANAGER_ROLE)
addDiscountedUserResultAdminRole(sender, user) ==
    IF ~hasFeesRole(ADMIN_ROLE, sender) THEN ErrMissingRole
    ELSE IF user \in discountedUsers THEN "Already a discounted user"
    ELSE OK
addDiscountedUserResult(sender, user) ==
    IF ~hasFeesRole(FEE_MANAGER_ROLE, sender) THEN ErrMissingRole
    ELSE IF user \in discountedUsers THEN "Already a discounted user"
    ELSE OK

addDiscountedUser(sender, user) ==
    LET result == addDiscountedUserResult(sender, user)
    IN  /\ MayCall(sender)
        /\ result = OK => LogRoom
        /\ feesLast' = FeesCall("addDiscountedUser", result)
        /\ IF result = OK
           THEN /\ discountedUsers' = discountedUsers \cup {user}
                /\ feesEvents' = Append(feesEvents, <<"DiscountedUserAdded", user>>)
           ELSE UNCHANGED <<discountedUsers, feesEvents>>
        /\ UNCHANGED <<now, initialized, storageAll, registryAll, orch, clientAll, feeConfig, treasury,
                       discountPercentage, feesPaused, feesRoles, balance,
                       feesCollected, feesDistributed, feesStack>>

\* removeDiscountedUser(user): onlyRole(FEE_MANAGER_ROLE)
removeDiscountedUserResult(sender, user) ==
    IF ~hasFeesRole(FEE_MANAGER_ROLE, sender) THEN ErrMissingRole
    ELSE IF user \notin discountedUsers THEN "Not a discounted user"
    ELSE OK

removeDiscountedUser(sender, user) ==
    LET result == removeDiscountedUserResult(sender, user)
    IN  /\ MayCall(sender)
        /\ result = OK => LogRoom
        /\ feesLast' = FeesCall("removeDiscountedUser", result)
        /\ IF result = OK
           THEN /\ discountedUsers' = discountedUsers \ {user}
                /\ feesEvents' = Append(feesEvents, <<"DiscountedUserRemoved", user>>)
           ELSE UNCHANGED <<discountedUsers, feesEvents>>
        /\ UNCHANGED <<now, initialized, storageAll, registryAll, orch, clientAll, feeConfig, treasury,
                       discountPercentage, feesPaused, feesRoles, balance,
                       feesCollected, feesDistributed, feesStack>>

\* updateDiscountPercentage(_discountPercentage): onlyRole(ADMIN_ROLE)
updateDiscountPercentageResultNoCheck(sender, percentage) ==
    IF ~hasFeesRole(ADMIN_ROLE, sender) THEN ErrMissingRole ELSE OK
updateDiscountPercentageResult(sender, percentage) ==
    IF ~hasFeesRole(ADMIN_ROLE, sender) THEN ErrMissingRole
    ELSE IF ~(percentage <= 100) THEN "Invalid discount percentage"
    ELSE OK

updateDiscountPercentage(sender, percentage) ==
    LET result == updateDiscountPercentageResult(sender, percentage)
    IN  /\ MayCall(sender)
        /\ result = OK => LogRoom
        /\ feesLast' = FeesCall("updateDiscountPercentage", result)
        /\ IF result = OK
           THEN /\ discountPercentage' = percentage
                /\ feesEvents' = Append(feesEvents,
                        <<"DiscountPercentageUpdated", discountPercentage, percentage>>)
           ELSE UNCHANGED <<discountPercentage, feesEvents>>
        /\ UNCHANGED <<now, initialized, storageAll, registryAll, orch, clientAll, feeConfig, treasury,
                       discountedUsers, feesPaused, feesRoles, balance,
                       feesCollected, feesDistributed, feesStack>>

\* pause(): onlyRole(ADMIN_ROLE), then _pause() (whenNotPaused)
feesPauseResult(sender) ==
    IF ~hasFeesRole(ADMIN_ROLE, sender) THEN ErrMissingRole
    ELSE IF feesPaused THEN ErrPaused
    ELSE OK

\* unpause(): onlyRole(ADMIN_ROLE), then _unpause() (whenPaused)
feesUnpauseResult(sender) ==
    IF ~hasFeesRole(ADMIN_ROLE, sender) THEN ErrMissingRole
    ELSE IF ~feesPaused THEN ErrNotPaused
    ELSE OK

feesPause(sender) ==
    LET result == feesPauseResult(sender)
    IN  /\ MayCall(sender)
        /\ feesLast' = FeesCall("pause", result)
        /\ feesPaused' = IF result = OK THEN TRUE ELSE feesPaused
        /\ UNCHANGED <<now, initialized, storageAll, registryAll, orch, clientAll, feeConfig, treasury,
                       discountedUsers, discountPercentage, feesRoles, balance,
                       feesEvents, feesCollected, feesDistributed, feesStack>>

feesUnpause(sender) ==
    LET result == feesUnpauseResult(sender)
    IN  /\ MayCall(sender)
        /\ feesLast' = FeesCall("unpause", result)
        /\ feesPaused' = IF result = OK THEN FALSE ELSE feesPaused
        /\ UNCHANGED <<now, initialized, storageAll, registryAll, orch, clientAll, feeConfig, treasury,
                       discountedUsers, discountPercentage, feesRoles, balance,
                       feesEvents, feesCollected, feesDistributed, feesStack>>

\* grantRole(role, account): onlyRole(getRoleAdmin(role)), and the admin role
\* of every role is DEFAULT_ADMIN_ROLE
feesGrantRole(sender, role, account) ==
    LET result == IF ~hasFeesRole(DEFAULT_ADMIN_ROLE, sender)
                  THEN ErrMissingRole ELSE OK
    IN  /\ MayCall(sender)
        /\ feesLast' = FeesCall("grantRole", result)
        /\ feesRoles' = IF result = OK
                        THEN [feesRoles EXCEPT ![role] = @ \cup {account}]
                        ELSE feesRoles
        /\ UNCHANGED <<now, initialized, storageAll, registryAll, orch, clientAll, feeConfig, treasury,
                       discountedUsers, discountPercentage, feesPaused, balance,
                       feesEvents, feesCollected, feesDistributed, feesStack>>

\* revokeRole(role, account): onlyRole(getRoleAdmin(role))
feesRevokeRole(sender, role, account) ==
    LET result == IF ~hasFeesRole(DEFAULT_ADMIN_ROLE, sender)
                  THEN ErrMissingRole ELSE OK
    IN  /\ MayCall(sender)
        /\ feesLast' = FeesCall("revokeRole", result)
        /\ feesRoles' = IF result = OK
                        THEN [feesRoles EXCEPT ![role] = @ \ {account}]
                        ELSE feesRoles
        /\ UNCHANGED <<now, initialized, storageAll, registryAll, orch, clientAll, feeConfig, treasury,
                       discountedUsers, discountPercentage, feesPaused, balance,
                       feesEvents, feesCollected, feesDistributed, feesStack>>

\* renounceRole(role, account): the sender gives up a role of its own
feesRenounceRole(sender, role, account) ==
    LET result == IF account # sender
                  THEN "AccessControl: can only renounce roles for self" ELSE OK
    IN  /\ MayCall(sender)
        /\ feesLast' = FeesCall("renounceRole", result)
        /\ feesRoles' = IF result = OK
                        THEN [feesRoles EXCEPT ![role] = @ \ {account}]
                        ELSE feesRoles
        /\ UNCHANGED <<now, initialized, storageAll, registryAll, orch, clientAll, feeConfig, treasury,
                       discountedUsers, discountPercentage, feesPaused, balance,
                       feesEvents, feesCollected, feesDistributed, feesStack>>

\* OGFees after initialize("bob", 1, 0, 1, 2, 50) sent by Deployer, who holds
\* all the ether there is
FeesInit ==
    /\ feeConfig = [baseStorageFee |-> 1, networkFee |-> 0, sharingFee |-> 1,
                    minimumFee |-> 2]
    /\ treasury = "bob"
    /\ discountedUsers = {}
    /\ discountPercentage = 50
    /\ feesPaused = FALSE
    /\ feesRoles = [r \in {DEFAULT_ADMIN_ROLE, ADMIN_ROLE, FEE_MANAGER_ROLE} |->
                       {Deployer}]
    /\ balance = [a \in FeeAccounts |-> IF a = Deployer THEN MaxFunds ELSE 0]
    /\ feesEvents = <<>>
    /\ feesCollected = 0
    /\ feesDistributed = 0
    /\ feesStack = <<>>
    /\ feesLast = FeesCall("initialize", OK)

----------------------------------------------------------------------------
(***************************************************************************)
(* Deployment and initialization.  The constructors disable the            *)
(* initializers of the implementations; each contract is used behind a     *)
(* proxy, whose storage is all zero until initialize is called.            *)
(***************************************************************************)

\* the `initializer` modifier of contract c
initializerResult(c) == IF initialized[c] THEN ErrInitialized ELSE OK

\* OGStorage.initialize()
storageInitializeAgain(sender) ==
    /\ storageLast' = StorageCall("initialize", sender, NoId, Zero, OK)
    /\ storageRoles' = [r \in DOMAIN storageRoles |->
            IF r \in {DEFAULT_ADMIN_ROLE, ADMIN_ROLE}
            THEN storageRoles[r] \cup {sender} ELSE storageRoles[r]]
    /\ storagePaused' = FALSE
    /\ initialized' = [initialized EXCEPT !["OGStorage"] = TRUE]
    /\ UNCHANGED <<now, registryAll, feesAll, orch, clientAll, files, userFiles, fileCounter,
                   deleted>>
storageInitialize(sender) ==
    LET result == initializerResult("OGStorage")
    IN  /\ storageLast' = StorageCall("initialize", sender, NoId, Zero, result)
        /\ IF result = OK
           THEN /\ storageRoles' = [r \in DOMAIN storageRoles |->
                        IF r \in {DEFAULT_ADMIN_ROLE, ADMIN_ROLE}
                        THEN storageRoles[r] \cup {sender} ELSE storageRoles[r]]
                /\ storagePaused' = FALSE
                /\ initialized' = [initialized EXCEPT !["OGStorage"] = TRUE]
           ELSE UNCHANGED <<storageRoles, storagePaused, initialized>>
        /\ UNCHANGED <<now, registryAll, feesAll, orch, clientAll, files, userFiles, fileCounter,
                       deleted>>

\* OGRegistry.initialize(_defaultStorageLimit)
registryInitialize(sender, limit) ==
    LET result == initializerResult("OGRegistry")
    IN  /\ registryLast' = RegistryCall("initialize", sender, result)
        /\ IF result = OK
           THEN /\ registryRoles' = [r \in DOMAIN registryRoles |->
                        IF r \in {DEFAULT_ADMIN_ROLE, ADMIN_ROLE}
                        THEN registryRoles[r] \cup {sender} ELSE registryRoles[r]]
                /\ registryPaused' = FALSE
                /\ defaultStorageLimit' = limit
                /\ initialized' = [initialized EXCEPT !["OGRegistry"] = TRUE]
           ELSE UNCHANGED <<registryRoles, registryPaused, defaultStorageLimit,
                            initialized>>
        /\ UNCHANGED <<now, storageAll, feesAll, orch, clientAll, users, usernameToAddress>>

\* OGFees.initialize(_treasury, fees, _discountPercentage): the modifier,
\* then the two requires
feesInitializeResult(newTreasury, percentage) ==
    IF initialized["OGFees"] THEN ErrInitialized
    ELSE IF newTreasury = Zero THEN "Invalid treasury address"
    ELSE IF ~(percentage <= 100) THEN "Invalid discount percentage"
    ELSE OK

feesInitialize(sender, newTreasury, config, percentage) ==
    LET result == feesInitializeResult(newTreasury, percentage)
    IN  /\ MayCall(sender)
        /\ feesLast' = FeesCall("initialize", result)
        /\ IF result = OK
           THEN /\ feesRoles' = [r \in DOMAIN feesRoles |-> feesRoles[r] \cup {sender}]
                /\ feesPaused' = FALSE
                /\ treasury' = newTreasury
                /\ discountPercentage' = percentage
                /\ feeConfig' = config
                /\ initialized' = [initialized EXCEPT !["OGFees"] = TRUE]
           ELSE UNCHANGED <<feesRoles, feesPaused, treasury, discountPercentage,
                            feeConfig, initialized>>
        /\ UNCHANGED <<now, storageAll, registryAll, orch, clientAll, discountedUsers, balance,
                       feesEvents, feesCollected, feesDistributed, feesStack>>

----------------------------------------------------------------------------
(***************************************************************************)
(* The orchestrated upload: the caller of the ledgers reads the quota of   *)
(* a principal, asks canStoreData, stores the data, and has a verifier     *)
(* record the new usage.  Each of these is a call of its own.              *)
(***************************************************************************)

\* canStoreData(user, size)
canStoreDataNoSize(user, size) ==
    IF ~users[user].isRegistered THEN FALSE
    ELSE users[user].usedStorage <= users[user].storageLimit
canStoreData(user, size) ==
    IF ~users[user].isRegistered THEN FALSE
    ELSE users[user].usedStorage + size <= users[user].storageLimit

\* canStoreData(user, size) as a call, a view function: the sum is checked
\* arithmetic on uint256; the call, its arguments and what it returned are
\* recorded
canStoreDataResultNoRegistered(user, size) ==
    IF users[user].usedStorage + size > MaxUint THEN [result |-> ErrOverflow]
    ELSE [result |-> OK,
          returned |-> users[user].usedStorage + size <= users[user].storageLimit]
canStoreDataResult(user, size) ==
    IF ~users[user].isRegistered THEN [result |-> OK, returned |-> FALSE]
    ELSE IF users[user].usedStorage + size > MaxUint THEN [result |-> ErrOverflow]
    ELSE [result |-> OK, returned |-> canStoreData(user, size)]

canStoreDataCall(user, size) ==
    /\ registryLast' = [op |-> "canStoreData", user |-> user, size |-> size]
                          @@ canStoreDataResult(user, size)
    /\ UNCHANGED <<now, initialized, storageAll, feesAll, orch, clientAll, registryVars>>

\* the uploads that are orchestrated, all for one principal, their sizes,
\* and the verifier that records the usage
OrchUploads == {"u1", "u2"}
OrchPrincipal == "ann"
OrchVerifier == "bob"
OrchSizes == 1..MaxStorage

\* the upload starts: it reads usedStorage of the principal (getUserProfile
\* reverts for an unregistered principal, and the upload is given up); it
\* overlaps an upload that is between its read and its updateUsedStorage
orchRead(u, size) ==
    /\ orch.pc[u] = "idle"
    /\ orch' = IF users[OrchPrincipal].isRegistered
               THEN [orch EXCEPT !.pc[u] = "read", !.size[u] = size,
                                 !.read[u] = users[OrchPrincipal].usedStorage,
                                 !.overlapped = @ \/ \E o \in OrchUploads \ {u} :
                                     orch.pc[o] \in {"read", "checked", "stored"}]
               ELSE [orch EXCEPT !.pc[u] = "refused"]
    /\ UNCHANGED <<now, initialized, storageAll, registryAll, feesAll, clientAll>>

\* the upload asks canStoreData(p, size) and is given up when the answer is false
orchCheck(u) ==
    /\ orch.pc[u] = "read"
    /\ orch' = [orch EXCEPT !.pc[u] = IF canStoreData(OrchPrincipal, orch.size[u])
                                      THEN "checked" ELSE "refused"]
    /\ UNCHANGED <<now, initialized, storageAll, registryAll, feesAll, clientAll>>

\* the data is stored
orchStore(u) ==
    /\ orch.pc[u] = "checked"
    /\ orch' = [orch EXCEPT !.pc[u] = "stored", !.stored = @ + orch.size[u]]
    /\ UNCHANGED <<now, initialized, storageAll, registryAll, feesAll, clientAll>>

\* the verifier calls updateUsedStorage(p, usedRead + size)
orchRecord(u) ==
    LET newUsedStorage == orch.read[u] + orch.size[u]
        result == updateUsedStorageResult(OrchVerifier, OrchPrincipal, newUsedStorage)
    IN  /\ orch.pc[u] = "stored"
        /\ registryLast' = RegistryCall("updateUsedStorage", OrchVerifier, result)
        /\ users' = IF result = OK
                    THEN [users EXCEPT ![OrchPrincipal].usedStorage = newUsedStorage]
                    ELSE users
        /\ orch' = [orch EXCEPT !.pc[u] = IF result = OK THEN "done" ELSE "failed"]
        /\ UNCHANGED <<now, initialized, storageAll, feesAll, clientAll, usernameToAddress,
                       defaultStorageLimit, registryPaused, registryRoles>>

\* no upload has started
OrchInit ==
    orch = [pc |-> [u \in OrchUploads |-> "idle"],
            size |-> [u \in OrchUploads |-> 0],
            read |-> [u \in OrchUploads |-> 0],
            stored |-> 0,
            overlapped |-> FALSE]

----------------------------------------------------------------------------
(***************************************************************************)
(* The client: the useUpload hook.  Its state is the React state of the    *)
(* hook; an uploadFile call runs from one await to the next in one step,   *)
(* and calls that overlap interleave at their awaits.                      *)
(***************************************************************************)

\* the uploadFile calls that can be in progress at a time
HookCalls == {"c1", "c2"}
\* null, as a returned value, and the value of a call that has not returned
Null == "null"
Pending == "pending"
\* a string built from pieces (a template literal): "" is the empty tuple
Str(pieces) == SelectSeq(pieces, LAMBDA s : s # "")
\* preCalculatedRootHash ("" when it is not passed) and the root hash in the
\* result of uploadToStorage ("" when there is none)
PreCalculated == {"", "pre"}
UploadedRoots == {"", "root"}
\* the message of an error returned beside a null provider or signer ("" when
\* there is no error object or no message), and of an error thrown by an
\* awaited call
ErrMessages == {"", "no wallet"}
Thrown == {"rejected", "Cannot read properties of null (reading 'success')"}
\* the messages of uploadErr: the text, and which of the phrases looked for
\* with includes() it contains
UploadErrs ==
    {[text |-> "", has |-> {}],
     [text |-> "Failed to submit transaction: network", has |-> {"Failed to submit transaction", "network"}],
     [text |-> "insufficient funds", has |-> {"insufficient funds"}],
     [text |-> "user rejected", has |-> {"user rejected"}],
     [text |-> "network unreachable", has |-> {"network"}],
     [text |-> "quota", has |-> {}]}

\* the message thrown for a failed storage upload: the message of uploadErr
\* or 'Upload failed', replaced by a message for the user when it contains
\* one of four phrases (the literals of lines 151-157, in translation)
uploadErrorMessage(e) ==
    IF "Failed to submit transaction" \in e.has
    THEN "A network problem occurred during the upload. Try again later."
    ELSE IF "insufficient funds" \in e.has THEN "The wallet has insufficient funds."
    ELSE IF "user rejected" \in e.has THEN "The user cancelled the transaction."
    ELSE IF "network" \in e.has THEN "There is a problem with the network connection."
    ELSE IF e.text = "" THEN "Upload failed"
    ELSE e.text

\* preCalculatedRootHash || uploadResult.rootHash || 'upload-success'
uploadReturnValue(pre, root) ==
    IF pre # "" THEN pre ELSE IF root # "" THEN root ELSE "upload-success"

\* catch and finally: the error is set, the status reset, null returned
hookCatches(c, message) ==
    [hook EXCEPT !.error = message, !.uploadStatus = "", !.loading = FALSE,
                 !.returned[c] = Null, !.pc[c] = "done"]

\* the return of the try block, with the status set last, and finally
hookReturns(h, c, status) ==
    [h EXCEPT !.uploadStatus = status, !.loading = FALSE,
              !.returned[c] = uploadReturnValue(h.pre[c], h.root[c]),
              !.pc[c] = "done"]

\* uploadFile(zgFile, ..., preCalculatedRootHash, verifyOnChain) is called:
\* up to the first await
hookUploadFile(c, zgFile, pre, verifyOnChain) ==
    /\ hook.pc[c] = "idle"
    /\ hook' = IF zgFile = Null
               THEN [hook EXCEPT !.error = Str(<<"Missing required upload data">>),
                                 !.returned[c] = Null, !.pc[c] = "done"]
               ELSE [hook EXCEPT !.loading = TRUE, !.error = Str(<<>>),
                                 !.uploadStatus = "Preparing file...",
                                 !.txHash = "", !.rootHash = "",
                                 !.alreadyExists = FALSE,
                                 !.pre[c] = pre, !.verifyOnChain[c] = verifyOnChain,
                                 !.pc[c] = "getProvider"]
    /\ UNCHANGED <<now, initialized, storageAll, registryAll, feesAll, orch, msNow, tags>>

\* await getProvider() returns [provider, providerErr]
getProviderReturns(c, provider, message) ==
    /\ hook.pc[c] = "getProvider"
    /\ hook' = IF provider = Null
               THEN hookCatches(c, Str(<<"Provider error: ",
                                        IF message = "" THEN "undefined" ELSE message>>))
               ELSE [hook EXCEPT !.pc[c] = "getSigner"]
    /\ UNCHANGED <<now, initialized, storageAll, registryAll, feesAll, orch, msNow, tags>>

\* await getSigner(provider) returns [signer, signerErr]; with a signer the
\* status is set and uploadToStorage is called
getSignerReturns(c, signer, message) ==
    /\ hook.pc[c] = "getSigner"
    /\ hook' = IF signer = Null
               THEN hookCatches(c, Str(<<"Signer error: ",
                                        IF message = "" THEN "undefined" ELSE message>>))
               ELSE [hook EXCEPT !.uploadStatus = "Uploading file to storage...",
                                 !.pc[c] = "uploadToStorage"]
    /\ UNCHANGED <<now, initialized, storageAll, registryAll, feesAll, orch, msNow, tags>>

\* await uploadToStorage(...) returns [uploadResult, uploadErr]: a failure
\* throws the message for the user
uploadToStorageFails(c, e) ==
    /\ hook.pc[c] = "uploadToStorage"
    /\ hook' = hookCatches(c, Str(<<uploadErrorMessage(e)>>))
    /\ UNCHANGED <<now, initialized, storageAll, registryAll, feesAll, orch, msNow, tags>>

\* getProvider, getSigner or uploadToStorage throws instead of returning
\* (or uploadToStorage returns no uploadResult, so that reading
\* uploadResult.success throws): the catch block takes the message
awaitedCallThrows(c, message) ==
    /\ hook.pc[c] \in {"getProvider", "getSigner", "uploadToStorage"}
    /\ hook' = hookCatches(c, Str(<<message>>))
    /\ UNCHANGED <<now, initialized, storageAll, registryAll, feesAll, orch, msNow, tags>>

\* await uploadToStorage(...) returns a success, with or without a root hash:
\* up to the await of the verification, or to the return
uploadToStorageSucceeds(c, root, exists) ==
    LET stored == [hook EXCEPT !.root[c] = root, !.stored[c] = TRUE]
        final == IF hook.pre[c] # "" THEN hook.pre[c] ELSE root
        kept == [stored EXCEPT !.rootHash = final, !.alreadyExists = exists]
    IN  /\ hook.pc[c] = "uploadToStorage"
        /\ hook' = IF root = "" THEN hookReturns(stored, c, "Upload complete!")
                   ELSE IF hook.verifyOnChain[c] /\ ~exists
                   THEN [kept EXCEPT !.uploadStatus = "Verifying on chain...",
                                     !.pc[c] = "submitVerificationTransaction"]
                   ELSE IF exists
                   THEN [kept EXCEPT !.uploadStatus = "File already exists in storage",
                                     !.pc[c] = "verifyFileOnChain"]
                   ELSE hookReturns(kept, c, "Upload complete!")
        /\ UNCHANGED <<now, initialized, storageAll, registryAll, feesAll, orch, msNow, tags>>

\* await submitVerificationTransaction(...) returns [txHash, verifyErr] (it
\* catches what it throws)
submitVerificationReturns(c, verifyErr) ==
    /\ hook.pc[c] = "submitVerificationTransaction"
    /\ hook' = hookReturns([hook EXCEPT !.verifyFailed[c] = verifyErr], c,
                           IF verifyErr
                           THEN "Upload complete! (On-chain verification pending)"
                           ELSE "Upload complete! (Verified on chain)")
    /\ UNCHANGED <<now, initialized, storageAll, registryAll, feesAll, orch, msNow, tags>>

\* await verifyFileOnChain(...) returns its result (it catches what it throws)
verifyFileOnChainReturns(c, verified) ==
    /\ hook.pc[c] = "verifyFileOnChain"
    /\ hook' = hookReturns([hook EXCEPT !.verifyFailed[c] = ~verified], c,
                           IF verified THEN "File verified on chain"
                           ELSE hook.uploadStatus)
    /\ UNCHANGED <<now, initialized, storageAll, registryAll, feesAll, orch, msNow, tags>>

\* the caller is done with the value a call returned: the call can be made
\* again
hookCallAgain(c) ==
    /\ hook.pc[c] = "done"
    /\ hook' = [hook EXCEPT !.pc[c] = "idle", !.returned[c] = Pending,
                            !.pre[c] = "", !.root[c] = "", !.verifyOnChain[c] = FALSE,
                            !.stored[c] = FALSE, !.verifyFailed[c] = FALSE]
    /\ UNCHANGED <<now, initialized, storageAll, registryAll, feesAll, orch, msNow, tags>>

\* resetUploadState()
resetUploadState ==
    /\ hook' = [hook EXCEPT !.loading = FALSE, !.error = Str(<<>>),
                            !.uploadStatus = "", !.txHash = "", !.rootHash = "",
                            !.alreadyExists = FALSE]
    /\ UNCHANGED <<now, initialized, storageAll, registryAll, feesAll, orch, msNow, tags>>

\* useState(false), useState(''), ...: the hook is mounted, no call is made
HookInit ==
    hook = [loading |-> FALSE, error |-> Str(<<>>), uploadStatus |-> "", txHash |-> "",
            rootHash |-> "", alreadyExists |-> FALSE,
            pc |-> [c \in HookCalls |-> "idle"],
            pre |-> [c \in HookCalls |-> ""],
            verifyOnChain |-> [c \in HookCalls |-> FALSE],
            root |-> [c \in HookCalls |-> ""],
            stored |-> [c \in HookCalls |-> FALSE],
            verifyFailed |-> [c \in HookCalls |-> FALSE],
            returned |-> [c \in HookCalls |-> Pending]]

(***************************************************************************)
(* The client: generateUniqueTag and the same construction in              *)
(* createSubmission.  A string is the sequence of its characters.          *)
(***************************************************************************)

HexDigits == <<"0", "1", "2", "3", "4", "5", "6", "7", "8", "9",
               "a", "b", "c", "d", "e", "f">>

\* Number.prototype.toString(16) of a non-negative integer
RECURSIVE toString16(_)
toString16(n) ==
    IF n < 16 THEN <<HexDigits[n + 1]>>
    ELSE toString16(n \div 16) \o <<HexDigits[(n % 16) + 1]>>

\* the tag built from Date.now() and the random value
uniqueTag(timestamp, randomValue) ==
    LET combinedValue == timestamp + randomValue
        hexString == toString16(combinedValue)
        paddedHex == IF Len(hexString) % 2 = 0 THEN hexString ELSE <<"0">> \o hexString
    IN  <<"0", "x">> \o paddedHex

\* generateUniqueTag() returns a tag
generateUniqueTag(randomValue) ==
    /\ Len(tags) < MaxTags
    /\ tags' = Append(tags, uniqueTag(msNow, randomValue))
    /\ UNCHANGED <<now, initialized, storageAll, registryAll, feesAll, orch, hook, msNow>>

\* createSubmission(zgFile) builds its tag, in the same way
createSubmission(randomValue) ==
    /\ Len(tags) < MaxTags
    /\ tags' = Append(tags, uniqueTag(msNow, randomValue))
    /\ UNCHANGED <<now, initialized, storageAll, registryAll, feesAll, orch, hook, msNow>>

\* a millisecond passes
msTick ==
    /\ msNow < MaxMs
    /\ msNow' = msNow + 1
    /\ UNCHANGED <<now, initialized, storageAll, registryAll, feesAll, orch, hook, tags>>

\* the client before anything is called
ClientInit ==
    /\ HookInit
    /\ msNow = 0
    /\ tags = <<>>

----------------------------------------------------------------------------
\* a new block: block.timestamp grows
Tick ==
    /\ now < MaxTime
    /\ now' = now + 1
    /\ UNCHANGED <<initialized, storageAll, registryAll, feesAll, orch, clientAll>>

\* the three proxies deployed and not yet initialized: their storage is zero
Deployed ==
    /\ now = 1
    /\ initialized = [c \in Contracts |-> FALSE]
    /\ files = [id \in FileIds |-> NoFile]
    /\ userFiles = [p \in Principals |-> <<>>]
    /\ fileCounter = 0
    /\ storagePaused = FALSE
    /\ storageRoles = [r \in {DEFAULT_ADMIN_ROLE, ADMIN_ROLE, OPERATOR_ROLE} |-> {}]
    /\ storageLast = StorageCall("constructor", Deployer, NoId, Zero, OK)
    /\ deleted = {}
    /\ users = [p \in Principals |-> NoUser]
    /\ usernameToAddress = [u \in UsernameInputs |-> Zero]
    /\ defaultStorageLimit = 0
    /\ registryPaused = FALSE
    /\ registryRoles = [r \in {DEFAULT_ADMIN_ROLE, ADMIN_ROLE, VERIFIER_ROLE} |-> {}]
    /\ registryLast = RegistryCall("constructor", Deployer, OK)
    /\ feeConfig = [baseStorageFee |-> 0, networkFee |-> 0, sharingFee |-> 0,
                    minimumFee |-> 0]
    /\ treasury = Zero
    /\ discountedUsers = {}
    /\ discountPercentage = 0
    /\ feesPaused = FALSE
    /\ feesRoles = [r \in {DEFAULT_ADMIN_ROLE, ADMIN_ROLE, FEE_MANAGER_ROLE} |-> {}]
    /\ balance = [a \in FeeAccounts |-> IF a = Deployer THEN MaxFunds ELSE 0]
    /\ feesEvents = <<>>
    /\ feesCollected = 0
    /\ feesDistributed = 0
    /\ feesStack = <<>>
    /\ feesLast = FeesCall("constructor", OK)
    /\ OrchInit
    /\ ClientInit

\* OGStorage after initialize() sent by Deployer
StorageInit ==
    /\ files = [id \in FileIds |-> NoFile]
    /\ userFiles = [p \in Principals |-> <<>>]
    /\ fileCounter = 0
    /\ storagePaused = FALSE
    /\ storageRoles = [r \in {DEFAULT_ADMIN_ROLE, ADMIN_ROLE, OPERATOR_ROLE} |->
                          IF r = OPERATOR_ROLE THEN {} ELSE {Deployer}]
    /\ storageLast = StorageCall("initialize", Deployer, NoId, Zero, OK)
    /\ deleted = {}

\* both contracts deployed and initialized, the registry with any default limit
Init ==
    /\ now = 1
    /\ initialized = [c \in Contracts |-> TRUE]
    /\ StorageInit
    /\ \E limit \in Sizes : RegistryInit(limit)
    /\ FeesInit
    /\ OrchInit
    /\ ClientInit

\* the file registry alone, beside a registry that is not called
StorageInitOnly ==
    /\ now = 1
    /\ initialized = [c \in Contracts |-> TRUE]
    /\ StorageInit
    /\ RegistryInit(0)
    /\ FeesInit
    /\ OrchInit
    /\ ClientInit

StorageNext ==
    \/ \E s \in Uploaders, h \in RootHashInputs : uploadFile(s, h)
    \/ \E s \in Principals, id \in FileIds, u \in ShareInputs : shareFile(s, id, u)
    \/ \E s \in Principals, id \in FileIds, u \in Grantees : unshareFile(s, id, u)
    \/ \E s \in Principals, id \in FileIds : deleteFile(s, id)
    \/ \E s \in Principals : storagePause(s)
    \/ \E s \in Principals : storageUnpause(s)
    \/ Tick

StorageSpec == StorageInitOnly /\ [][StorageNext]_vars

\* the user registry alone, beside a file registry that is not called
RegistryNext ==
    \/ \E s \in Registrants, u \in UsernameInputs : register(s, u)
    \/ \E s \in Principals, u \in Registrants, n \in Sizes : updateUsedStorage(s, u, n)
    \/ \E s \in Principals, u \in Registrants, n \in Sizes : updateStorageLimit(s, u, n)
    \/ \E s \in Principals, n \in Sizes : updateDefaultStorageLimit(s, n)
    \/ \E s \in Principals : registryPause(s)
    \/ \E s \in Principals : registryUnpause(s)
    \/ \E s \in Principals, a \in Verifiers : registryGrantRole(s, VERIFIER_ROLE, a)
    \/ \E s \in Principals, a \in Verifiers : registryRevokeRole(s, VERIFIER_ROLE, a)
    \/ Tick

RegistrySpec == Init /\ [][RegistryNext]_vars

\* the fee ledger alone, beside the two registries that are not called: the
\* functions that move funds, the gate, and the configuration the movement
\* of funds reads
FeesNext ==
    \/ \E s \in Principals, u \in Payers, a \in Amounts, t \in {"storage"}, v \in Amounts :
          collectFee(s, u, a, t, v)
    \/ \E s \in Principals : distributeFees(s)
    \/ transferReturns
    \/ transferFails
    \/ \E s \in Principals, v \in Amounts : receiveEther(s, v)
    \/ \E s \in Principals, t \in TreasuryInputs : updateTreasury(s, t)
    \/ \E s \in Principals, u \in Payers : addDiscountedUser(s, u)
    \/ \E s \in Principals, u \in Payers : removeDiscountedUser(s, u)
    \/ \E s \in Principals : feesPause(s)
    \/ \E s \in Principals : feesUnpause(s)
    \/ \E s \in Principals, a \in RoleGrantees : feesGrantRole(s, FEE_MANAGER_ROLE, a)
    \/ \E s \in Principals, a \in RoleGrantees : feesRevokeRole(s, FEE_MANAGER_ROLE, a)

FeesSpec == StorageInitOnly /\ [][FeesNext]_vars

\* the senders of the calls where roles are granted and revoked: the
\* deployer and the grantee
GateSenders == {Deployer, "ann"}

\* the role-gated functions of the fee ledger, beside the grant and the
\* revocation of the two roles that gate them
FeeRolesNext ==
    \/ \E s \in GateSenders, u \in Payers, a \in Amounts, v \in Amounts :
          collectFee(s, u, a, "storage", v)
    \/ \E s \in GateSenders : distributeFees(s)
    \/ transferReturns
    \/ transferFails
    \/ \E s \in GateSenders, c \in {x \in FeeConfigInputs : x.minimumFee = MaxUint} :
          updateFeeConfig(s, c)
    \/ \E s \in GateSenders, t \in TreasuryInputs : updateTreasury(s, t)
    \/ \E s \in GateSenders, p \in PercentageInputs \ {0} : updateDiscountPercentage(s, p)
    \/ \E s \in GateSenders, u \in Payers : addDiscountedUser(s, u)
    \/ \E s \in GateSenders, u \in Payers : removeDiscountedUser(s, u)
    \/ \E s \in GateSenders : feesPause(s)
    \/ \E s \in GateSenders : feesUnpause(s)
    \/ \E s \in GateSenders, r \in {ADMIN_ROLE, FEE_MANAGER_ROLE}, a \in RoleGrantees :
          feesGrantRole(s, r, a)
    \/ \E s \in GateSenders, r \in {ADMIN_ROLE, FEE_MANAGER_ROLE}, a \in RoleGrantees :
          feesRevokeRole(s, r, a)

FeeRolesSpec == StorageInitOnly /\ [][FeeRolesNext]_vars

\* the initialize calls of the three contracts, first and repeated
InitializeNext ==
    \/ \E s \in GateSenders : storageInitialize(s)
    \/ \E s \in GateSenders, n \in Sizes : registryInitialize(s, n)
    \/ \E s \in GateSenders, t \in TreasuryInputs, c \in FeeConfigInputs,
          p \in PercentageInputs : feesInitialize(s, t, c, p)

InitializeSpec == Deployed /\ [][InitializeNext]_vars

\* the fee ledger from its deployment: initialize with every treasury and
\* percentage, and the functions that set the treasury, the percentage and
\* the discount set
FeeAdminNext ==
    \/ \E s \in GateSenders, t \in TreasuryInputs,
          c \in {x \in FeeConfigInputs : x.minimumFee = MaxUint},
          p \in PercentageInputs : feesInitialize(s, t, c, p)
    \/ \E s \in GateSenders, t \in Addresses : updateTreasury(s, t)
    \/ \E s \in GateSenders, p \in PercentageInputs : updateDiscountPercentage(s, p)
    \/ \E s \in GateSenders, u \in GateSenders : addDiscountedUser(s, u)
    \/ \E s \in GateSenders, u \in GateSenders : removeDiscountedUser(s, u)

FeeAdminSpec == Deployed /\ [][FeeAdminNext]_vars

\* the files uploaded in one block: their sharing, with every account and
\* address(0) as the grantee, their deletion and their reading
ShareNext ==
    \/ \E s \in Uploaders, h \in RootHashes : uploadFile(s, h)
    \/ \E s \in Uploaders, id \in FileIds, u \in Addresses : shareFile(s, id, u)
    \/ \E s \in Uploaders, id \in FileIds, u \in Principals : unshareFile(s, id, u)
    \/ \E s \in Uploaders, id \in FileIds : deleteFile(s, id)
    \/ \E s \in Principals, id \in FileIds : getFile(s, id)
    \/ storagePause(Deployer)
    \/ storageUnpause(Deployer)

ShareSpec == StorageInitOnly /\ [][ShareNext]_vars

\* the fee calculations, beside the functions that set what they read
FeeCalcNext ==
    \/ \E n \in UintInputs : calculateStorageFee(n)
    \/ \E u \in Principals, a \in UintInputs : applyDiscount(u, a)
    \/ \E s \in Principals, c \in FeeConfigInputs : updateFeeConfig(s, c)
    \/ \E s \in Principals, p \in PercentageInputs : updateDiscountPercentage(s, p)
    \/ \E s \in Principals, u \in Payers : addDiscountedUser(s, u)
    \/ \E s \in Principals, u \in Payers : removeDiscountedUser(s, u)

FeeCalcSpec == StorageInitOnly /\ [][FeeCalcNext]_vars

\* the quota of the registered principals: the amounts passed as usage,
\* limit and size, the default limit OGRegistry is initialized with, the
\* verifier that records the usage, and the questions canStoreData answers
QuotaInputs == {0, 500, 600, 1000, MaxUint}
QuotaVerifier == "bob"

QuotaInit ==
    /\ now = 1
    /\ initialized = [c \in Contracts |-> TRUE]
    /\ StorageInit
    /\ \E limit \in {500, 1000} : RegistryInit(limit)
    /\ FeesInit
    /\ OrchInit
    /\ ClientInit

QuotaNext ==
    \/ \E s \in Registrants, u \in Usernames : register(s, u)
    \/ registryGrantRole(Deployer, VERIFIER_ROLE, QuotaVerifier)
    \/ \E s \in {Deployer, QuotaVerifier}, u \in Registrants, n \in QuotaInputs :
          updateUsedStorage(s, u, n)
    \/ \E u \in Registrants, n \in QuotaInputs : updateStorageLimit(Deployer, u, n)
    \/ \E u \in Principals, n \in QuotaInputs : canStoreDataCall(u, n)

QuotaSpec == QuotaInit /\ [][QuotaNext]_vars

\* the useUpload hook alone: its uploadFile calls, one after the other and
\* overlapping, with every outcome of what they await
HookNext ==
    \/ \E c \in HookCalls, f \in {Null, "zgFile"}, pre \in PreCalculated, v \in BOOLEAN :
          hookUploadFile(c, f, pre, v)
    \/ \E c \in HookCalls, pr \in {Null, "provider"}, m \in ErrMessages :
          getProviderReturns(c, pr, m)
    \/ \E c \in HookCalls, s \in {Null, "signer"}, m \in ErrMessages :
          getSignerReturns(c, s, m)
    \/ \E c \in HookCalls, e \in UploadErrs : uploadToStorageFails(c, e)
    \/ \E c \in HookCalls, m \in Thrown : awaitedCallThrows(c, m)
    \/ \E c \in HookCalls, r \in UploadedRoots, x \in BOOLEAN :
          uploadToStorageSucceeds(c, r, x)
    \/ \E c \in HookCalls, e \in BOOLEAN : submitVerificationReturns(c, e)
    \/ \E c \in HookCalls, v \in BOOLEAN : verifyFileOnChainReturns(c, v)
    \/ \E c \in HookCalls : hookCallAgain(c)
    \/ resetUploadState

HookSpec == StorageInitOnly /\ [][HookNext]_vars

\* the tag constructions alone, as the clock of the client advances
TagNext ==
    \/ \E r \in 0..MaxRandom : generateUniqueTag(r)
    \/ \E r \in 0..MaxRandom : createSubmission(r)
    \/ msTick

TagSpec == StorageInitOnly /\ [][TagNext]_vars

\* the orchestrated uploads of a principal that registers, beside a verifier
OrchNext ==
    \/ \E u \in Usernames : register(OrchPrincipal, u)
    \/ registryGrantRole(Deployer, VERIFIER_ROLE, OrchVerifier)
    \/ \E u \in OrchUploads, n \in OrchSizes : orchRead(u, n)
    \/ \E u \in OrchUploads : orchCheck(u)
    \/ \E u \in OrchUploads : orchStore(u)
    \/ \E u \in OrchUploads : orchRecord(u)

OrchSpec == Init /\ [][OrchNext]_vars

\* the gates of the three contracts: pause, unpause and the grant, the
\* revocation and the renunciation of the admin role, sent by the deployer
\* and by the grantee
GateNext ==
    \/ \E s \in GateSenders : storagePause(s)
    \/ \E s \in GateSenders : storageUnpause(s)
    \/ \E s \in GateSenders, a \in RoleGrantees : storageGrantRole(s, ADMIN_ROLE, a)
    \/ \E s \in GateSenders, a \in RoleGrantees : storageRevokeRole(s, ADMIN_ROLE, a)
    \/ \E s \in GateSenders : registryPause(s)
    \/ \E s \in GateSenders : registryUnpause(s)
    \/ \E s \in GateSenders, a \in RoleGrantees : registryGrantRole(s, ADMIN_ROLE, a)
    \/ \E s \in GateSenders, a \in RoleGrantees : registryRevokeRole(s, ADMIN_ROLE, a)
    \/ \E s \in GateSenders : feesPause(s)
    \/ \E s \in GateSenders : feesUnpause(s)
    \/ \E s \in GateSenders, a \in RoleGrantees : feesGrantRole(s, ADMIN_ROLE, a)
    \/ \E s \in GateSenders, a \in RoleGrantees : feesRevokeRole(s, ADMIN_ROLE, a)
    \/ \E s \in GateSenders, a \in RoleGrantees : storageRenounceRole(s, ADMIN_ROLE, a)
    \/ \E s \in GateSenders, a \in RoleGrantees : registryRenounceRole(s, ADMIN_ROLE, a)
    \/ \E s \in GateSenders, a \in RoleGrantees : feesRenounceRole(s, ADMIN_ROLE, a)

GateSpec == StorageInitOnly /\ [][GateNext]_vars

\* the three contracts, called in any order
Next ==
    \/ StorageNext
    \/ RegistryNext
    \/ FeesNext
    \/ \E s \in Principals, c \in FeeConfigInputs : updateFeeConfig(s, c)
    \/ \E s \in Principals, p \in PercentageInputs : updateDiscountPercentage(s, p)
    \/ \E n \in UintInputs : calculateStorageFee(n)
    \/ \E u \in Principals, a \in UintInputs : applyDiscount(u, a)
    \/ OrchNext
    \/ GateNext
    \/ InitializeNext
    \/ HookNext
    \/ TagNext
    \/ \E u \in Principals, n \in Sizes : canStoreDataCall(u, n)
    \/ \E s \in Principals, id \in FileIds : getFile(s, id)
Spec == Init /\ [][Next]_vars

----------------------------------------------------------------------------
(***************************************************************************)
(* Properties of OGRegistry, stated for RegistrySpec                      *)
(***************************************************************************)

\* a step that is a rejected call to OGRegistry: it reverted and changed nothing
RegistryRejected == registryLast'.result # OK /\ UNCHANGED registryVars

\* C1: in every reachable state every registered profile has
\* usedStorage <= storageLimit.
C1_UsedWithinLimit ==
    \A p \in Principals :
        users[p].isRegistered => users[p].usedStorage <= users[p].storageLimit

\* a profile filled to its limit, and an attempt to shrink the limit below the
\* usage was just rejected
C1_Witness ==
    /\ \E p \in Principals :
          /\ users[p].isRegistered
          /\ users[p].usedStorage > 0
          /\ users[p].usedStorage = users[p].storageLimit
    /\ registryLast = RegistryCall("updateStorageLimit", Deployer, ErrLimitBelowUsed)

\* no two distinct registered principals have the same username
UsernamesUnique ==
    \A p, q \in Principals :
        (users[p].isRegistered /\ users[q].isRegistered /\ p # q)
            => users[p].username # users[q].username

\* username u is held by a registered principal other than s
TakenByOther(s, u) ==
    \E q \in Principals \ {s} : users[q].isRegistered /\ users[q].username = u

\* C8 as stated: usernames are unique, and register(u) fails with a conflict
\* error, changing nothing, whenever another principal is registered with u.
C8_TakenUsernameConflict ==
    [][/\ UsernamesUnique'
       /\ \A s \in Registrants, u \in Usernames :
            (TakenByOther(s, u) /\ register(s, u))
                => /\ registryLast'.result \in {ErrRegistered, ErrUsernameTaken}
                   /\ UNCHANGED registryVars]_vars

\* C8 amended: usernames are unique, and register(u) fails, changing nothing,
\* whenever another principal is registered with u: with a conflict error
\* when the gate is not paused, with the pause error when it is.
C8_TakenUsernameRejected ==
    [][/\ UsernamesUnique'
       /\ \A s \in Registrants, u \in Usernames :
            (TakenByOther(s, u) /\ register(s, u))
                => /\ registryLast'.result \in
                        (IF registryPaused THEN {ErrPaused}
                         ELSE {ErrRegistered, ErrUsernameTaken})
                   /\ UNCHANGED registryVars]_vars

\* an unregistered principal was just refused a username another one holds
C8_Witness ==
    /\ registryLast = RegistryCall("register", "bob", ErrUsernameTaken)
    /\ \E p \in Registrants : \E q \in Registrants \ {p} :
          users[p].isRegistered /\ ~users[q].isRegistered

\* C9 as stated: register by an already-registered principal fails with a
\* conflict error for every username and leaves the profiles and the username
\* reverse index unchanged.
C9_ReRegisterConflict ==
    [][\A s \in Registrants, u \in UsernameInputs :
          (users[s].isRegistered /\ register(s, u))
              => /\ registryLast'.result = ErrRegistered
                 /\ UNCHANGED <<users, usernameToAddress>>]_vars

\* C9 amended: register by an already-registered principal fails for every
\* username and leaves the profiles and the username reverse index unchanged:
\* with the conflict error "User already registered" when the gate is not
\* paused, with the pause error when it is.
C9_ReRegisterRejected ==
    [][\A s \in Registrants, u \in UsernameInputs :
          (users[s].isRegistered /\ register(s, u))
              => /\ registryLast'.result =
                        (IF registryPaused THEN ErrPaused ELSE ErrRegistered)
                 /\ UNCHANGED <<users, usernameToAddress>>]_vars

\* a registered principal was just refused a second registration while a
\* username is still free
C9_Witness ==
    /\ registryLast = RegistryCall("register", "ann", ErrRegistered)
    /\ \E u \in Usernames : usernameToAddress[u] = Zero

\* the step is a call of one of the four functions that write profiles or
\* the default limit
RegistryMutatingCall ==
    \/ /\ registryLast'.op = "register"
       /\ \E s \in Registrants, u \in UsernameInputs : register(s, u)
    \/ /\ registryLast'.op = "updateUsedStorage"
       /\ \E s \in Principals, u \in Registrants, n \in Sizes :
             updateUsedStorage(s, u, n)
    \/ /\ registryLast'.op = "updateStorageLimit"
       /\ \E s \in Principals, u \in Registrants, n \in Sizes :
             updateStorageLimit(s, u, n)
    \/ /\ registryLast'.op = "updateDefaultStorageLimit"
       /\ \E s \in Principals, n \in Sizes : updateDefaultStorageLimit(s, n)

\* C12: while the gate of OGRegistry is paused, register, updateUsedStorage,
\* updateStorageLimit and updateDefaultStorageLimit are rejected for every
\* caller, role holders included, and change no profile nor the default limit.
C12_PausedRegistryRejects ==
    [][~registryPaused \/ RegistryRejected \/ ~RegistryMutatingCall]_vars

----------------------------------------------------------------------------
(***************************************************************************)
(* Properties of OGStorage, stated for StorageSpec                        *)
(***************************************************************************)

\* getUserFiles(user), as a set
userFileSet(user) == {userFiles[user][i] : i \in DOMAIN userFiles[user]}

\* a step that is a rejected call to OGStorage: it reverted and changed nothing
StorageRejected == storageLast'.result # OK /\ UNCHANGED storageVars

\* C2: a fileId is in the owner index of o exactly when its record exists and
\* is owned by o.
C2_OwnerIndex ==
    \A id \in FileIds, o \in Principals :
        id \in userFileSet(o) <=> (files[id].exists /\ files[id].owner = o)

\* ann uploaded at times 1 and 2 and then deleted the older file, the first
\* entry of her list: the last entry was moved into its place
C2_Witness ==
    /\ storageLast = StorageCall("deleteFile", "ann", NoId, Zero, OK)
    /\ fileId("h", "ann", 1) \in deleted
    /\ userFiles["ann"] = <<fileId("h", "ann", 2)>>

\* C3: once deleteFile(id) has succeeded no record with that id exists again.
C3_DeletedStaysDead ==
    \A id \in deleted : ~files[id].exists

\* C4: a successful deleteFile(id) leaves no principal in sharedWith(id), and
\* when a record is created under an id nobody but its owner has access to it.
C4_DeleteErasesSharing ==
    [][\A id \in FileIds :
          /\ (files[id].exists /\ ~files'[id].exists)
                => files'[id].sharedWith = {}
          /\ (~files[id].exists /\ files'[id].exists)
                => \A p \in Addresses : hasAccess(id, p)' => p = files'[id].owner]_vars

\* C5: hasAccess(id, p) is true exactly when the record exists and p is its
\* owner or in its sharedWith set, whether or not the gate is paused.
C5_HasAccess ==
    \A id \in FileIds, p \in Addresses :
        hasAccess(id, p) <=>
            (files[id].exists /\ (p = files[id].owner \/ p \in files[id].sharedWith))

\* while paused: ann's file is shared with bob, who has access, the admin has
\* none, and a deleted record that still holds a grant gives access to nobody
C5_Witness ==
    /\ storagePaused
    /\ \E id \in FileIds :
          /\ files[id].exists /\ files[id].owner = "ann"
          /\ hasAccess(id, "ann") /\ hasAccess(id, "bob") /\ ~hasAccess(id, Deployer)
    /\ \E id \in FileIds :
          /\ ~files[id].exists /\ files[id].sharedWith # {}
          /\ \A p \in Addresses : ~hasAccess(id, p)

\* every call that names id is refused because no record exists (the mutating
\* calls may be refused by a paused gate before that)
CallsOnIdFail(id) ==
    \A s \in Principals :
        /\ getFileResult(s, id) = ErrNoFile
        /\ deleteFileResult(s, id) \in {ErrNoFile, ErrPaused}
        /\ \A u \in ShareInputs :
              /\ shareFileResult(s, id, u) \in {ErrNoFile, ErrPaused}
              /\ unshareFileResult(s, id, u) \in {ErrNoFile, ErrPaused}

\* the step is a call of op sent by s (every action of OGStorage records both)
StorageCalled(op, s) == storageLast'.op = op /\ storageLast'.sender = s

\* what a successful deleteFile(id) by its owner s does to the owner index
\* and the counter
DeleteFileEffect(s, id) ==
    /\ id \notin userFileSet(s)'
    /\ userFileSet(s)' = userFileSet(s) \ {id}
    /\ fileCounter' = fileCounter - 1
    /\ CallsOnIdFail(id)'

\* C6: after a successful deleteFile(id) the id has left the owner's list,
\* the other ids are still in it, the counter is one less, and later
\* shareFile, unshareFile, deleteFile and getFile calls on id find no file.
C6_AfterDelete ==
    [][/\ \A s \in Principals, id \in FileIds :
            (StorageCalled("deleteFile", s) /\ deleteFile(s, id)
                /\ storageLast'.result = OK) => DeleteFileEffect(s, id)
       /\ \A id \in deleted' : CallsOnIdFail(id)']_vars

\* the part of C6 about the step of deleteFile itself
C6_DeleteStep ==
    [][\A s \in Principals, id \in FileIds :
          (StorageCalled("deleteFile", s) /\ deleteFile(s, id)
              /\ storageLast'.result = OK) => DeleteFileEffect(s, id)]_vars

\* the step is a shareFile, unshareFile or deleteFile call on an existing
\* record sent by someone who is not its owner
CallByNonOwner ==
    \E s \in Principals, id \in FileIds :
        /\ files[id].exists
        /\ files[id].owner # s
        /\ \/ StorageCalled("deleteFile", s) /\ deleteFile(s, id)
           \/ \E u \in ShareInputs :
                 \/ StorageCalled("shareFile", s) /\ shareFile(s, id, u)
                 \/ StorageCalled("unshareFile", s) /\ unshareFile(s, id, u)

\* C7: shareFile, unshareFile and deleteFile on an existing record, sent by
\* anyone but its owner, are rejected and change nothing.
C7_OnlyOwnerMutates ==
    [][StorageRejected \/ ~CallByNonOwner]_vars

\* the admin was just refused the deletion of a file that is shared with bob
C7_Witness ==
    /\ storageLast = StorageCall("deleteFile", Deployer, NoId, Zero, ErrNotOwner)
    /\ \E id \in FileIds : files[id].exists /\ "bob" \in files[id].sharedWith

\* the step is one of the four mutating calls, sent by s
MutatingCall(s) ==
    \/ /\ StorageCalled("uploadFile", s)
       /\ s \in Uploaders
       /\ \E h \in RootHashInputs : uploadFile(s, h)
    \/ /\ StorageCalled("deleteFile", s)
       /\ \E id \in FileIds : deleteFile(s, id)
    \/ /\ StorageCalled("shareFile", s)
       /\ \E id \in FileIds, u \in ShareInputs : shareFile(s, id, u)
    \/ /\ StorageCalled("unshareFile", s)
       /\ \E id \in FileIds, u \in Grantees : unshareFile(s, id, u)

\* no mutating call would be refused for the pause
NoneRefusedForPause ==
    \A s \in Principals :
        /\ \A h \in RootHashInputs :
              s \in Uploaders => uploadFileResult(s, h) # ErrPaused
        /\ \A id \in FileIds :
              /\ deleteFileResult(s, id) # ErrPaused
              /\ \A u \in ShareInputs :
                    /\ shareFileResult(s, id, u) # ErrPaused
                    /\ unshareFileResult(s, id, u) # ErrPaused

\* C10: while the gate is paused uploadFile, shareFile, unshareFile and
\* deleteFile are rejected for every sender and change nothing; in the state
\* a successful unpause() leaves, none of them is refused for the pause.
C10_PausedRejects ==
    [][/\ storagePaused =>
            \/ storageLast'.result = ErrPaused /\ StorageRejected
            \/ ~(\E s \in Principals : MutatingCall(s))
       /\ \A s \in Principals :
            (StorageCalled("unpause", s) /\ storageUnpause(s) /\ storageLast'.result = OK)
                => NoneRefusedForPause']_vars

\* the gate is paused and ann, the owner of a file shared with bob, was just
\* refused its deletion: the record, the grant and the list entry are there
C10_Witness ==
    /\ storagePaused
    /\ storageLast = StorageCall("deleteFile", "ann", NoId, Zero, ErrPaused)
    /\ \E id \in FileIds :
          /\ files[id].exists /\ files[id].owner = "ann"
          /\ "bob" \in files[id].sharedWith
          /\ id \in userFileSet("ann")

\* the gate has just been unpaused: the calls of the owner of a file, and an
\* upload, succeed again
C10_AfterUnpause ==
    /\ storageLast = StorageCall("unpause", Deployer, NoId, Zero, OK)
    /\ \E id \in FileIds :
          /\ files[id].exists /\ files[id].owner = "ann"
          /\ shareFileResult("ann", id, "bob") = OK
          /\ deleteFileResult("ann", id) = OK
    /\ uploadFileResult("bob", "h") = OK

----------------------------------------------------------------------------
(***************************************************************************)
(* Properties of the gates of the three contracts, stated for GateSpec     *)
(***************************************************************************)

\* the step is a call of op to OGRegistry, to OGFees (every action records it)
RegistryCalled(op) == registryLast'.op = op
FeesCalled(op) == feesLast'.op = op

\* the calls of the gate of OGStorage made while it is paused: pause() by an
\* admin ends with pauseOutcome and leaves the gate paused, unpause() by an
\* admin succeeds, a grant or revocation by a super-admin succeeds
StorageGateWhilePaused(s, pauseOutcome) ==
    storagePaused =>
        /\ (hasStorageRole(ADMIN_ROLE, s) /\ StorageCalled("pause", s) /\ storagePause(s))
              => storageLast'.result = pauseOutcome /\ storagePaused'
        /\ (hasStorageRole(ADMIN_ROLE, s) /\ StorageCalled("unpause", s)
                /\ storageUnpause(s))
              => storageLast'.result = OK /\ ~storagePaused'
        /\ \A a \in RoleGrantees :
              hasStorageRole(DEFAULT_ADMIN_ROLE, s) =>
                /\ (StorageCalled("grantRole", s) /\ storageGrantRole(s, ADMIN_ROLE, a))
                      => storageLast'.result = OK /\ a \in storageRoles'[ADMIN_ROLE]
                /\ (StorageCalled("revokeRole", s) /\ storageRevokeRole(s, ADMIN_ROLE, a))
                      => storageLast'.result = OK /\ a \notin storageRoles'[ADMIN_ROLE]

\* the same for the gate of OGRegistry
RegistryGateWhilePaused(s, pauseOutcome) ==
    registryPaused =>
        /\ (hasRegistryRole(ADMIN_ROLE, s) /\ RegistryCalled("pause") /\ registryPause(s))
              => registryLast'.result = pauseOutcome /\ registryPaused'
        /\ (hasRegistryRole(ADMIN_ROLE, s) /\ RegistryCalled("unpause")
                /\ registryUnpause(s))
              => registryLast'.result = OK /\ ~registryPaused'
        /\ \A a \in RoleGrantees :
              hasRegistryRole(DEFAULT_ADMIN_ROLE, s) =>
                /\ (RegistryCalled("grantRole") /\ registryGrantRole(s, ADMIN_ROLE, a))
                      => registryLast'.result = OK /\ a \in registryRoles'[ADMIN_ROLE]
                /\ (RegistryCalled("revokeRole") /\ registryRevokeRole(s, ADMIN_ROLE, a))
                      => registryLast'.result = OK /\ a \notin registryRoles'[ADMIN_ROLE]

\* the same for the gate of OGFees
FeesGateWhilePaused(s, pauseOutcome) ==
    feesPaused =>
        /\ (hasFeesRole(ADMIN_ROLE, s) /\ FeesCalled("pause") /\ feesPause(s))
              => feesLast'.result = pauseOutcome /\ feesPaused'
        /\ (hasFeesRole(ADMIN_ROLE, s) /\ FeesCalled("unpause") /\ feesUnpause(s))
              => feesLast'.result = OK /\ ~feesPaused'
        /\ \A a \in RoleGrantees :
              hasFeesRole(DEFAULT_ADMIN_ROLE, s) =>
                /\ (FeesCalled("grantRole") /\ feesGrantRole(s, ADMIN_ROLE, a))
                      => feesLast'.result = OK /\ a \in feesRoles'[ADMIN_ROLE]
                /\ (FeesCalled("revokeRole") /\ feesRevokeRole(s, ADMIN_ROLE, a))
                      => feesLast'.result = OK /\ a \notin feesRoles'[ADMIN_ROLE]

\* C11 as stated: while a gate is paused, pause() and unpause() sent by a
\* principal holding the admin role and grantRole and revokeRole sent by a
\* super-admin all complete successfully.
C11_GateCallsSucceedWhilePaused ==
    [][\A s \in GateSenders :
          /\ StorageGateWhilePaused(s, OK)
          /\ RegistryGateWhilePaused(s, OK)
          /\ FeesGateWhilePaused(s, OK)]_vars

\* C11 amended: while a gate is paused, unpause() sent by a principal holding
\* the admin role and grantRole and revokeRole sent by a super-admin complete
\* successfully; pause() sent by a principal holding the admin role is
\* rejected with "Pausable: paused" and leaves the gate paused.
C11_GateOpenToAdminsWhilePaused ==
    [][\A s \in GateSenders :
          /\ StorageGateWhilePaused(s, ErrPaused)
          /\ RegistryGateWhilePaused(s, ErrPaused)
          /\ FeesGateWhilePaused(s, ErrPaused)]_vars

\* OGStorage is paused and the grantee of the admin role was just refused a
\* second pause(); OGRegistry is paused and the admin role was just granted;
\* OGFees was paused and has just been unpaused
C11_Witness ==
    /\ storagePaused
    /\ "ann" \in storageRoles[ADMIN_ROLE]
    /\ storageLast = StorageCall("pause", "ann", NoId, Zero, ErrPaused)
    /\ registryPaused
    /\ registryLast = RegistryCall("grantRole", Deployer, OK)
    /\ "ann" \in registryRoles[ADMIN_ROLE]
    /\ ~feesPaused
    /\ feesLast = FeesCall("unpause", OK)

\* the step is a successful pause() of one of the three contracts
SuccessfulPause ==
    \E s \in GateSenders :
        \/ StorageCalled("pause", s) /\ storagePause(s) /\ storageLast'.result = OK
        \/ RegistryCalled("pause") /\ registryPause(s) /\ registryLast'.result = OK
        \/ FeesCalled("pause") /\ feesPause(s) /\ feesLast'.result = OK

\* every state-mutating call of OGStorage, of OGRegistry, of OGFees would be
\* rejected, whoever sends it
StorageRejectsAll ==
    \A s \in Principals :
        /\ \A h \in RootHashInputs : s \in Uploaders => uploadFileResult(s, h) # OK
        /\ \A id \in FileIds :
              /\ deleteFileResult(s, id) # OK
              /\ \A u \in ShareInputs :
                    shareFileResult(s, id, u) # OK /\ unshareFileResult(s, id, u) # OK
RegistryRejectsAll ==
    \A s \in Principals :
        /\ \A u \in UsernameInputs : registerResult(s, u) # OK
        /\ \A n \in Sizes :
              /\ updateDefaultStorageLimitResult(s, n) # OK
              /\ \A u \in Registrants :
                    /\ updateUsedStorageResult(s, u, n) # OK
                    /\ updateStorageLimitResult(s, u, n) # OK
FeesRejectsAll ==
    \A s \in Principals :
        /\ \A a \in Amounts, v \in Values(s) : collectFeeResult(s, a, v) # OK
        /\ distributeFeesResult(s) # OK
        /\ \A c \in FeeConfigInputs : updateFeeConfigResult(s, c) # OK
        /\ \A x \in TreasuryInputs : updateTreasuryResult(s, x) # OK
        /\ \A u \in Payers :
              addDiscountedUserResult(s, u) # OK /\ removeDiscountedUserResult(s, u) # OK
        /\ \A n \in PercentageInputs : updateDiscountPercentageResult(s, n) # OK

\* C13: the pause state is one boolean for the three ledgers: in the state
\* a successful pause() of any of the contracts leaves, the state-mutating
\* calls of OGStorage, of OGRegistry and of OGFees (distributeFees and the
\* configuration functions included) are all rejected.
C13_OnePauseForAll ==
    [][SuccessfulPause =>
          (StorageRejectsAll /\ RegistryRejectsAll /\ FeesRejectsAll)']_vars

----------------------------------------------------------------------------
(***************************************************************************)
(* Properties of OGFees, stated for FeesSpec                               *)
(***************************************************************************)

\* the step is the return of the receiver's code to the suspended call of op
ReturnsTo(op) ==
    /\ feesStack # <<>>
    /\ feesStack[Len(feesStack)].op = op
    /\ transferReturns

\* the step is the failure of the receiver's code in the suspended call of op
FailsIn(op) ==
    /\ feesStack # <<>>
    /\ feesStack[Len(feesStack)].op = op
    /\ transferFails

\* the step is collectFee(u, a, "storage") sent by s with value v, passing
\* its checks
CollectFeeRuns(s, u, a, v) ==
    /\ FeesCalled("collectFee")
    /\ feesLast'.result \in {OK, InTransfer}
    /\ collectFee(s, u, a, "storage", v)

\* C14: a collectFee(payer, amount, feeType) call that passes its checks has
\* value >= amount, adds exactly amount to the balance of the ledger, sends
\* exactly value - amount to payer (nothing, and no external call, when they
\* are equal) and appends exactly one event FeeCollected(payer, amount,
\* feeType); when the payer's code returns the call ends successfully with
\* balances and log as they are.
C14_CollectFeeEffect ==
    [][FeesCalled("collectFee") =>
          /\ \A s \in Principals, u \in Payers, a \in Amounts, v \in Amounts :
                CollectFeeRuns(s, u, a, v) =>
                    /\ v >= a
                    /\ balance'[Ledger] = balance[Ledger] + a
                    /\ balance'[u] = balance[u] + (v - a) - (IF u = s THEN v ELSE 0)
                    /\ feesEvents' = Append(feesEvents, FeeCollected(u, a, "storage"))
                    /\ (v = a) => (feesLast'.result = OK /\ UNCHANGED feesStack)
          /\ ReturnsTo("collectFee") =>
                (feesLast'.result = OK /\ UNCHANGED <<balance, feesEvents>>)]_vars

\* the deployer called collectFee(ann, 1, "storage") with value 2 and ann's
\* code has returned: the ledger holds 1, ann was sent 1, one event is logged
C14_Witness ==
    /\ feesLast = FeesCall("collectFee", OK)
    /\ feesStack = <<>>
    /\ balance[Deployer] = MaxFunds - 2
    /\ balance[Ledger] = 1
    /\ balance["ann"] = 1
    /\ feesEvents = <<FeeCollected("ann", 1, "storage")>>

\* the step is collectFee(u, a, "storage") sent by s with value v
CollectFeeCalled(s, u, a, v) ==
    FeesCalled("collectFee") /\ collectFee(s, u, a, "storage", v)

\* C15: collectFee is all-or-nothing.  Sent with a value below amount it is
\* rejected (with "Insufficient fee" when the gate and the role let it in)
\* and changes nothing; when the refund to the payer fails it is rejected
\* with "Failed to return excess fee" and the balances of the ledger, of the
\* payer and of the sender, the event log and the collected total are what
\* they were before the call.
C15_CollectFeeAllOrNothing ==
    [][FeesCalled("collectFee") =>
          /\ \A s \in Principals, u \in Payers, a \in Amounts, v \in Amounts :
                (v < a /\ CollectFeeCalled(s, u, a, v)) =>
                    /\ feesLast'.result \in {ErrPaused, ErrMissingRole, ErrInsufficientFee}
                    /\ (~feesPaused /\ hasFeesRole(FEE_MANAGER_ROLE, s))
                          => feesLast'.result = ErrInsufficientFee
                    /\ UNCHANGED <<feesVars, feesStack>>
          /\ FailsIn("collectFee") =>
                LET before == feesStack[Len(feesStack)].saved
                IN  /\ feesLast'.result = ErrReturnExcess
                    /\ balance' = before.balance
                    /\ feesEvents' = before.feesEvents
                    /\ feesCollected' = before.feesCollected]_vars

\* after a fee of 1 was collected, a collectFee call with an excess was
\* rejected because the refund failed: the ledger holds the earlier fee only
\* and the log the earlier event only
C15_Witness ==
    /\ feesLast = FeesCall("collectFee", ErrReturnExcess)
    /\ feesStack = <<>>
    /\ balance[Deployer] = MaxFunds - 1
    /\ balance[Ledger] = 1
    /\ balance["ann"] = 0
    /\ feesCollected = 1
    /\ feesEvents = <<FeeCollected("ann", 1, "storage")>>

\* the step is distributeFees() sent by s
DistributeFeesCalled(s) ==
    FeesCalled("distributeFees") /\ distributeFees(s)

C17_HeldIsCollectedMinusDistributed ==
    balance[Ledger] = feesCollected - feesDistributed

\* the event of the suspended call f is in the log, right after the events
\* logged before the call
EventLogged(f) ==
    LET n == Len(f.saved.feesEvents)
    IN  /\ Len(feesEvents) > n
        /\ feesEvents[n + 1] = (IF f.op = "collectFee"
                                THEN FeeCollected(f.to, f.amount, "storage")
                                ELSE FeeDistributed(f.to, f.amount))

\* C18: while the receiver's code runs in the transfer of a collectFee or of
\* a distributeFees call, the event of that call is already in the log.
C18_EventBeforeTransfer ==
    \A i \in DOMAIN feesStack : EventLogged(feesStack[i])

\* the half of C18 about collectFee
C18_CollectFeeEventBeforeRefund ==
    \A i \in DOMAIN feesStack :
        feesStack[i].op = "collectFee" => EventLogged(feesStack[i])

\* C19: a collectFee or distributeFees call runs to its end as one step:
\* while it is suspended in its transfer no other call starts, the only step
\* is the return or the failure of the receiver's code.
C19_NoCallDuringTransfer ==
    [][feesStack # <<>> => Len(feesStack') < Len(feesStack)]_vars

\* a consequence of C19: while a call is suspended in its transfer, no other
\* call runs successfully
C19_NoEffectDuringTransfer ==
    [][feesStack # <<>> =>
          (Len(feesStack') < Len(feesStack) \/ feesLast'.result \notin {OK, InTransfer})]_vars

----------------------------------------------------------------------------
(***************************************************************************)
(* Properties of the orchestrated upload                                   *)
(***************************************************************************)

\* C20: the quota check and the quota update are separate calls: every
\* updateUsedStorage keeps usedStorage within storageLimit, and yet the data
\* stored for the principal can exceed storageLimit, which (when no update was
\* rejected) happens only when two uploads overlapped between the read of
\* one and its update.
C20_QuotaRace ==
    users[OrchPrincipal].isRegistered =>
        /\ users[OrchPrincipal].usedStorage <= users[OrchPrincipal].storageLimit
        /\ (/\ orch.stored > users[OrchPrincipal].storageLimit
            /\ \A u \in OrchUploads : orch.pc[u] # "failed")
           => orch.overlapped

\* both uploads passed canStoreData and had their updateUsedStorage accepted,
\* and the stored data exceeds the limit that usedStorage respects
C20_Witness ==
    /\ \A u \in OrchUploads : orch.pc[u] = "done"
    /\ registryLast = RegistryCall("updateUsedStorage", OrchVerifier, OK)
    /\ orch.stored > users[OrchPrincipal].storageLimit
    /\ users[OrchPrincipal].usedStorage <= users[OrchPrincipal].storageLimit

----------------------------------------------------------------------------
(***************************************************************************)
(* Properties of the fee calculations, stated for FeeCalcSpec             *)
(***************************************************************************)

\* size * baseStorageFee + networkFee, as a number of any size
StorageFeeOf(size) == size * feeConfig.baseStorageFee + feeConfig.networkFee

\* C21 as stated: every call of calculateStorageFee(size), under every fee
\* configuration, returns size * baseStorageFee + networkFee when that is at
\* least minimumFee and minimumFee otherwise, so at least minimumFee, and
\* changes no state.
C21_StorageFee ==
    [][FeesCalled("calculateStorageFee") =>
          /\ feesLast'.result = OK
          /\ feesLast'.returned = IF StorageFeeOf(feesLast'.size) >= feeConfig.minimumFee
                                  THEN StorageFeeOf(feesLast'.size)
                                  ELSE feeConfig.minimumFee
          /\ feesLast'.returned >= feeConfig.minimumFee
          /\ UNCHANGED feesVars]_vars

\* C21, amended: when size * baseStorageFee + networkFee fits in a uint256,
\* calculateStorageFee(size) returns it when it is at least minimumFee and
\* minimumFee otherwise, so at least minimumFee; when it does not fit, the
\* call reverts with the arithmetic panic; the call changes no state.
C21_StorageFeeUnlessOverflow ==
    [][FeesCalled("calculateStorageFee") =>
          /\ IF StorageFeeOf(feesLast'.size) <= MaxUint
             THEN /\ feesLast'.result = OK
                  /\ feesLast'.returned =
                         IF StorageFeeOf(feesLast'.size) >= feeConfig.minimumFee
                         THEN StorageFeeOf(feesLast'.size)
                         ELSE feeConfig.minimumFee
                  /\ feesLast'.returned >= feeConfig.minimumFee
             ELSE feesLast'.result = ErrOverflow
          /\ UNCHANGED feesVars]_vars

\* after an updateFeeConfig, a call returned the minimum fee, above the
\* computed fee
C21_Witness ==
    /\ feesEvents # <<>>
    /\ feesLast.op = "calculateStorageFee"
    /\ feesLast.result = OK
    /\ feesLast.size > 0
    /\ StorageFeeOf(feesLast.size) < feeConfig.minimumFee
    /\ feesLast.returned = feeConfig.minimumFee

\* amount - floor(amount * discountPercentage / 100), as a number of any size
DiscountedOf(amount) == amount - ((amount * discountPercentage) \div 100)

\* C22 as stated: every call of applyDiscount(p, amount) returns amount when
\* p is not discounted and amount - floor(amount * discountPercentage / 100)
\* when p is discounted, a result between 0 and amount.
C22_ApplyDiscount ==
    [][FeesCalled("applyDiscount") =>
          /\ feesLast'.result = OK
          /\ feesLast'.returned = IF feesLast'.user \in discountedUsers
                                  THEN DiscountedOf(feesLast'.amount)
                                  ELSE feesLast'.amount
          /\ feesLast'.returned \in 0..feesLast'.amount
          /\ UNCHANGED feesVars]_vars

\* C22, amended: applyDiscount(p, amount) returns amount when p is not
\* discounted; when p is discounted and amount * discountPercentage fits in a
\* uint256 it returns amount - floor(amount * discountPercentage / 100); a
\* returned result is between 0 and amount; when p is discounted and the
\* product does not fit, the call reverts with the arithmetic panic.
C22_ApplyDiscountUnlessOverflow ==
    [][FeesCalled("applyDiscount") =>
          /\ IF feesLast'.user \notin discountedUsers
             THEN feesLast'.result = OK /\ feesLast'.returned = feesLast'.amount
             ELSE IF feesLast'.amount * discountPercentage <= MaxUint
             THEN /\ feesLast'.result = OK
                  /\ feesLast'.returned = DiscountedOf(feesLast'.amount)
                  /\ feesLast'.returned \in 0..feesLast'.amount
             ELSE feesLast'.result = ErrOverflow
          /\ UNCHANGED feesVars]_vars

\* a discounted user was given a discount that is neither nothing nor all
C22_Witness ==
    /\ feesLast.op = "applyDiscount"
    /\ feesLast.result = OK
    /\ feesLast.user \in discountedUsers
    /\ feesLast.returned > 0
    /\ feesLast.returned < feesLast.amount
    /\ feesLast.returned = DiscountedOf(feesLast.amount)

----------------------------------------------------------------------------
(***************************************************************************)
(* Role gating of OGRegistry, stated for RegistrySpec                     *)
(***************************************************************************)

\* in the current state, a sender without the role of a function is refused
\* by it for the missing role, whatever the arguments
RegistryRolesRequired ==
    \A s \in Principals, u \in Registrants, n \in Sizes :
        /\ ~hasRegistryRole(VERIFIER_ROLE, s) =>
               updateUsedStorageResult(s, u, n) = ErrMissingRole
        /\ ~hasRegistryRole(ADMIN_ROLE, s) =>
               /\ updateStorageLimitResult(s, u, n) = ErrMissingRole
               /\ updateDefaultStorageLimitResult(s, n) = ErrMissingRole

\* C23: usedStorage of a profile changes only by a successful
\* updateUsedStorage, storageLimit only by a successful updateStorageLimit and
\* the default limit only by a successful updateDefaultStorageLimit; each of
\* them refuses a sender that does not hold its role (verifier for the first,
\* admin for the other two) at the time of the call, and a refused call
\* changes nothing.
C23_RegistryRoleGating ==
    [][/\ RegistryRolesRequired
       /\ registryLast'.result # OK => UNCHANGED registryVars
       /\ (\E p \in Principals :
              users[p].isRegistered /\ users'[p].usedStorage # users[p].usedStorage)
          => registryLast' = RegistryCall("updateUsedStorage", Zero, OK)
       /\ (\E p \in Principals :
              users[p].isRegistered /\ users'[p].storageLimit # users[p].storageLimit)
          => registryLast' = RegistryCall("updateStorageLimit", Zero, OK)
       /\ defaultStorageLimit' # defaultStorageLimit
          => registryLast' = RegistryCall("updateDefaultStorageLimit", Zero, OK)]_vars

\* a profile has storage in use, recorded by a verifier; the verifier role
\* has since been revoked and an updateUsedStorage was refused for the role
C23_Witness ==
    /\ \E p \in Principals : users[p].isRegistered /\ users[p].usedStorage > 0
    /\ registryRoles[VERIFIER_ROLE] = {}
    /\ registryLast = RegistryCall("updateUsedStorage", Zero, ErrMissingRole)

----------------------------------------------------------------------------
(***************************************************************************)
(* Role gating of OGFees, stated for FeeRolesSpec                         *)
(***************************************************************************)

\* in the current state, a sender without the role of a function is refused
\* by it, whatever the arguments: collectFee for the pause or the missing
\* role, the other functions for the missing role
FeesRolesRequired ==
    \A s \in Principals :
        /\ (feesPaused \/ ~hasFeesRole(FEE_MANAGER_ROLE, s)) =>
               \A a \in Amounts, v \in Amounts :
                   collectFeeResult(s, a, v) \in {ErrPaused, ErrMissingRole}
        /\ ~hasFeesRole(ADMIN_ROLE, s) =>
               /\ distributeFeesResult(s) = ErrMissingRole
               /\ \A c \in FeeConfigInputs : updateFeeConfigResult(s, c) = ErrMissingRole
               /\ \A t \in TreasuryInputs : updateTreasuryResult(s, t) = ErrMissingRole
               /\ \A p \in PercentageInputs :
                      updateDiscountPercentageResult(s, p) = ErrMissingRole
        /\ ~hasFeesRole(FEE_MANAGER_ROLE, s) =>
               \A u \in Payers :
                   /\ addDiscountedUserResult(s, u) = ErrMissingRole
                   /\ removeDiscountedUserResult(s, u) = ErrMissingRole

\* C24: collectFee succeeds only for a fee manager while the gate is not
\* paused; distributeFees, updateFeeConfig, updateTreasury and
\* updateDiscountPercentage only for an admin; addDiscountedUser and
\* removeDiscountedUser only for a fee manager.  A call that is rejected
\* leaves the fee state and the balances as they were when it began.
C24_FeesRoleGating ==
    [][/\ FeesRolesRequired
       /\ feesLast'.result \in {OK, InTransfer}
          \/ (IF Len(feesStack') < Len(feesStack)
              THEN feesSnapshot' = feesStack[Len(feesStack)].saved
              ELSE UNCHANGED <<feesVars, feesStack>>)]_vars

\* an admin that is no fee manager was refused by addDiscountedUser or
\* removeDiscountedUser (the caller is the receiver of the refund in transfer,
\* whose code is the only one that runs meanwhile)
C24_Witness ==
    /\ hasFeesRole(ADMIN_ROLE, "ann")
    /\ ~hasFeesRole(FEE_MANAGER_ROLE, "ann")
    /\ feesStack # <<>>
    /\ feesStack[Len(feesStack)].to = "ann"
    /\ feesLast.op \in {"addDiscountedUser", "removeDiscountedUser"}
    /\ feesLast.result = ErrMissingRole

----------------------------------------------------------------------------
(***************************************************************************)
(* The role sets, stated for GateSpec                                     *)
(***************************************************************************)

\* a step that changes a role set of OGStorage, OGRegistry or OGFees is a
\* successful grantRole or revokeRole sent by a holder of DEFAULT_ADMIN_ROLE
StorageRolesByGrant ==
    /\ storageLast'.op \in {"grantRole", "revokeRole"}
    /\ storageLast'.result = OK
    /\ hasStorageRole(DEFAULT_ADMIN_ROLE, storageLast'.sender)
RegistryRolesByGrant ==
    /\ registryLast'.op \in {"grantRole", "revokeRole"}
    /\ registryLast'.result = OK
    /\ \E s \in GateSenders, a \in RoleGrantees :
          /\ hasRegistryRole(DEFAULT_ADMIN_ROLE, s)
          /\ registryGrantRole(s, ADMIN_ROLE, a) \/ registryRevokeRole(s, ADMIN_ROLE, a)
FeesRolesByGrant ==
    /\ feesLast'.op \in {"grantRole", "revokeRole"}
    /\ feesLast'.result = OK
    /\ \E s \in GateSenders, a \in RoleGrantees :
          /\ hasFeesRole(DEFAULT_ADMIN_ROLE, s)
          /\ feesGrantRole(s, ADMIN_ROLE, a) \/ feesRevokeRole(s, ADMIN_ROLE, a)

\* a step in which the sender removes itself, and nobody else, from a role
\* set by renounceRole
StorageRolesByRenounce ==
    /\ storageLast'.op = "renounceRole"
    /\ storageLast'.result = OK
    /\ \A r \in DOMAIN storageRoles :
          storageRoles'[r] \in {storageRoles[r], storageRoles[r] \ {storageLast'.sender}}
RegistryRolesByRenounce ==
    /\ registryLast'.op = "renounceRole"
    /\ registryLast'.result = OK
    /\ \E s \in GateSenders : registryRenounceRole(s, ADMIN_ROLE, s)
FeesRolesByRenounce ==
    /\ feesLast'.op = "renounceRole"
    /\ feesLast'.result = OK
    /\ \E s \in GateSenders : feesRenounceRole(s, ADMIN_ROLE, s)

\* a grant or a revocation of the admin role is in force in the state the
\* next call is made in: pause() sent by the account is refused for the
\* missing role exactly when the account is no admin
RoleChangeVisible ==
    \A s \in GateSenders, a \in RoleGrantees :
        /\ (storageGrantRole(s, ADMIN_ROLE, a) /\ storageLast'.result = OK)
              => (storagePauseResult(a) # ErrMissingRole)'
        /\ (storageRevokeRole(s, ADMIN_ROLE, a) /\ storageLast'.result = OK)
              => (storagePauseResult(a) = ErrMissingRole)'
        /\ (registryGrantRole(s, ADMIN_ROLE, a) /\ registryLast'.result = OK)
              => (registryPauseResult(a) # ErrMissingRole)'
        /\ (registryRevokeRole(s, ADMIN_ROLE, a) /\ registryLast'.result = OK)
              => (registryPauseResult(a) = ErrMissingRole)'
        /\ (feesGrantRole(s, ADMIN_ROLE, a) /\ feesLast'.result = OK)
              => (feesPauseResult(a) # ErrMissingRole)'
        /\ (feesRevokeRole(s, ADMIN_ROLE, a) /\ feesLast'.result = OK)
              => (feesPauseResult(a) = ErrMissingRole)'

\* C25 as stated: a role set changes only by a successful grantRole or
\* revokeRole sent by a super-admin, so no call of a principal without the
\* super-admin role adds a principal to a role set or removes one, itself
\* included; and a role change is in force for the very next call.
C25_RolesOnlyByGrantRevoke ==
    [][/\ storageRoles' # storageRoles => StorageRolesByGrant
       /\ registryRoles' # registryRoles => RegistryRolesByGrant
       /\ feesRoles' # feesRoles => FeesRolesByGrant
       /\ RoleChangeVisible]_vars

\* C25, amended: a role set changes only by a successful grantRole or
\* revokeRole sent by a super-admin, or by a renounceRole with which a
\* principal removes itself; no call of a principal without the super-admin
\* role adds a principal to a role set or removes another principal; and a
\* role change is in force for the very next call.
C25_RolesByGrantRevokeRenounce ==
    [][/\ storageRoles' # storageRoles => StorageRolesByGrant \/ StorageRolesByRenounce
       /\ registryRoles' # registryRoles => RegistryRolesByGrant \/ RegistryRolesByRenounce
       /\ feesRoles' # feesRoles => FeesRolesByGrant \/ FeesRolesByRenounce
       /\ RoleChangeVisible]_vars

\* an admin that is no super-admin has been refused by grantRole, and the
\* super-admin has then made another admin, who can pause
C25_Witness ==
    /\ storageLast = StorageCall("grantRole", Deployer, NoId, "ann", OK)
    /\ hasStorageRole(ADMIN_ROLE, "ann")
    /\ ~hasStorageRole(DEFAULT_ADMIN_ROLE, "ann")
    /\ storagePauseResult("ann") # ErrMissingRole
    /\ registryLast = RegistryCall("grantRole", "ann", ErrMissingRole)
    /\ registryRoles[ADMIN_ROLE] = {Deployer}

----------------------------------------------------------------------------
(***************************************************************************)
(* Initialization, stated for InitializeSpec                              *)
(***************************************************************************)

\* C26: each contract is initialized once.  The first initialize call (for
\* OGFees: the first with a treasury and a discount percentage it accepts)
\* makes its sender the one super-admin and admin and sets the configuration
\* passed to it; every initialize call of an initialized contract, by any
\* sender, is rejected and changes no role and no configuration.
C26_InitializeOnce ==
    [][\A s \in GateSenders :
          /\ storageInitialize(s) =>
                IF ~initialized["OGStorage"]
                THEN /\ storageLast'.result = OK
                     /\ storageRoles'[DEFAULT_ADMIN_ROLE] = {s}
                     /\ storageRoles'[ADMIN_ROLE] = {s}
                     /\ initialized'["OGStorage"]
                ELSE /\ storageLast'.result = ErrInitialized
                     /\ UNCHANGED <<storageVars, initialized>>
          /\ \A n \in Sizes : registryInitialize(s, n) =>
                IF ~initialized["OGRegistry"]
                THEN /\ registryLast'.result = OK
                     /\ registryRoles'[DEFAULT_ADMIN_ROLE] = {s}
                     /\ registryRoles'[ADMIN_ROLE] = {s}
                     /\ defaultStorageLimit' = n
                     /\ initialized'["OGRegistry"]
                ELSE /\ registryLast'.result = ErrInitialized
                     /\ UNCHANGED <<registryVars, initialized>>
          /\ \A t \in TreasuryInputs, c \in FeeConfigInputs, p \in PercentageInputs :
                feesInitialize(s, t, c, p) =>
                   IF initialized["OGFees"]
                   THEN /\ feesLast'.result = ErrInitialized
                        /\ UNCHANGED <<feesVars, initialized>>
                   ELSE IF t = Zero \/ p > 100
                   THEN /\ feesLast'.result \notin {OK, ErrInitialized}
                        /\ UNCHANGED <<feesVars, initialized>>
                   ELSE /\ feesLast'.result = OK
                        /\ feesRoles'[DEFAULT_ADMIN_ROLE] = {s}
                        /\ feesRoles'[ADMIN_ROLE] = {s}
                        /\ treasury' = t
                        /\ feeConfig' = c
                        /\ discountPercentage' = p
                        /\ initialized'["OGFees"]]_vars

\* the three contracts are initialized, by different senders, and a further
\* initialize of each was rejected
C26_Witness ==
    /\ \A c \in Contracts : initialized[c]
    /\ storageRoles[ADMIN_ROLE] = {"ann"}
    /\ registryRoles[ADMIN_ROLE] = {Deployer}
    /\ feesRoles[DEFAULT_ADMIN_ROLE] = {Deployer}
    /\ storageLast = StorageCall("initialize", Deployer, NoId, Zero, ErrInitialized)
    /\ registryLast = RegistryCall("initialize", "ann", ErrInitialized)
    /\ feesLast = FeesCall("initialize", ErrInitialized)

----------------------------------------------------------------------------
(***************************************************************************)
(* Errors of OGStorage, stated for StorageSpec                            *)
(***************************************************************************)

\* the upload of rootHash by s leaves the records, the owner index and the
\* counter as they were
UploadChangesNothing == UNCHANGED <<files, userFiles, fileCounter>>

\* s has a record of rootHash h made at another time, and none made now
UploadedBefore(s, h) ==
    /\ ~files[fileId(h, s, now)].exists
    /\ \E t \in Times \ {now} : files[fileId(h, s, t)].exists

\* the successful upload of h by s made a new record, with an id of its own,
\* and left the other records as they were
UploadedAnew(s, h) ==
    /\ storageLast'.result = OK
    /\ files'[fileId(h, s, now)].exists
    /\ fileCounter' = fileCounter + 1
    /\ \A id \in FileIds \ {fileId(h, s, now)} : files'[id] = files[id]

\* C27 as stated: uploadFile("") always fails with the empty-hash error, and
\* uploadFile(h) fails with the conflict error when a record with the id of
\* (h, caller, timestamp) exists; both leave records, owner index and counter
\* unchanged.  The same content uploaded by the same caller at a different
\* timestamp succeeds, under a different id.
C27_UploadErrors ==
    [][storageLast'.op # "uploadFile" \/
       \A s \in Uploaders, h \in RootHashInputs :
          uploadFile(s, h) =>
             IF h = ""
             THEN storageLast'.result = ErrEmptyHash /\ UploadChangesNothing
             ELSE IF files[fileId(h, s, now)].exists
             THEN storageLast'.result = ErrFileExists /\ UploadChangesNothing
             ELSE UploadedBefore(s, h) => UploadedAnew(s, h)]_vars

\* C27, amended: while the gate is not paused, uploadFile("") fails with the
\* empty-hash error and uploadFile(h) with the conflict error when a record
\* with the id of (h, caller, timestamp) exists, and the same content uploaded
\* by the same caller at a different timestamp succeeds under a different id;
\* while the gate is paused all of these fail with the pause error.  A failed
\* upload leaves records, owner index and counter unchanged.
C27_UploadErrorsUnlessPaused ==
    [][storageLast'.op # "uploadFile" \/
       \A s \in Uploaders, h \in RootHashInputs :
          uploadFile(s, h) =>
             IF storagePaused
             THEN storageLast'.result = ErrPaused /\ UploadChangesNothing
             ELSE IF h = ""
             THEN storageLast'.result = ErrEmptyHash /\ UploadChangesNothing
             ELSE IF files[fileId(h, s, now)].exists
             THEN storageLast'.result = ErrFileExists /\ UploadChangesNothing
             ELSE UploadedBefore(s, h) => UploadedAnew(s, h)]_vars

\* ann uploaded the same content at two timestamps, under two ids, and her
\* third upload, at the second timestamp again, was refused as a conflict
C27_Witness ==
    /\ storageLast = StorageCall("uploadFile", "ann", NoId, Zero, ErrFileExists)
    /\ \A t \in {1, 2} : files[fileId("h", "ann", t)].exists
    /\ Len(userFiles["ann"]) = 2
    /\ fileCounter = 2

----------------------------------------------------------------------------
(***************************************************************************)
(* Sharing, stated for ShareSpec                                          *)
(***************************************************************************)

\* the step changes, of all the state of OGStorage, at most the sharing set
\* of the record id
OnlySharingOf(id) ==
    /\ \A other \in FileIds \ {id} : files'[other] = files[other]
    /\ files'[id] = [files[id] EXCEPT !.sharedWith = files'[id].sharedWith]
    /\ UNCHANGED <<userFiles, fileCounter, storagePaused, storageRoles>>

\* shareFile(id, g) sent by the owner s of an existing record: the two
\* errors, and the effect of a success (nothing but the pause stands in the
\* way of a success)
ShareByOwner(s, id, g) ==
    IF g = Zero THEN storageLast'.result = ErrInvalidAddress /\ UNCHANGED storageVars
    ELSE IF g \in files[id].sharedWith
    THEN storageLast'.result = ErrAlreadyShared /\ UNCHANGED storageVars
    ELSE IF storageLast'.result # OK THEN storagePaused /\ UNCHANGED storageVars
    ELSE /\ files'[id].sharedWith = files[id].sharedWith \cup {g}
         /\ OnlySharingOf(id)
         /\ (unshareFileResult(s, id, g) = OK)'

\* unshareFile(id, g) sent by the owner s of an existing record: the error,
\* and the effect of a success, which takes g, and g alone, out of the
\* sharing set, so that after a shareFile of g, who was not in the set, the
\* set is the one before the shareFile
UnshareByOwner(s, id, g) ==
    IF g \notin files[id].sharedWith
    THEN storageLast'.result = ErrNotShared /\ UNCHANGED storageVars
    ELSE IF storageLast'.result # OK THEN storagePaused /\ UNCHANGED storageVars
    ELSE /\ files'[id].sharedWith = files[id].sharedWith \ {g}
         /\ files'[id].sharedWith \cup {g} = files[id].sharedWith
         /\ OnlySharingOf(id)

\* the calls of shareFile and unshareFile sent by the owner of an existing
\* record behave as ShareByOwner and UnshareByOwner say; when `gated`, they
\* are instead refused with the pause error while the gate is paused
SharingByOwner(gated) ==
    \A s \in Uploaders, id \in FileIds :
        (files[id].exists /\ files[id].owner = s) =>
            /\ \A g \in Addresses :
                  shareFile(s, id, g) =>
                     IF gated /\ storagePaused
                     THEN storageLast'.result = ErrPaused /\ UNCHANGED storageVars
                     ELSE ShareByOwner(s, id, g)
            /\ \A g \in Principals :
                  unshareFile(s, id, g) =>
                     IF gated /\ storagePaused
                     THEN storageLast'.result = ErrPaused /\ UNCHANGED storageVars
                     ELSE UnshareByOwner(s, id, g)

\* C28 as stated: shareFile(id, g) by the owner fails with its own error when
\* g is address(0) or already in the sharing set, unshareFile(id, g) fails
\* with the not-shared error when g is not in the set; a successful shareFile
\* followed by unshareFile of the same grantee restores the sharing set, and
\* neither changes another grantee's access, the owner, the owner index or
\* the counter.
C28_ShareUnshare ==
    [][storageLast'.op \notin {"shareFile", "unshareFile"}
       \/ SharingByOwner(FALSE)]_vars

\* C28, amended: while the gate is not paused, the statement of C28; while it
\* is paused, shareFile and unshareFile by the owner fail with the pause
\* error and change nothing.
C28_ShareUnshareUnlessPaused ==
    [][storageLast'.op \notin {"shareFile", "unshareFile"}
       \/ SharingByOwner(TRUE)]_vars

\* ann shared her file with two accounts and took one of them out again: the
\* other one still has access
C28_Witness ==
    /\ storageLast = StorageCall("unshareFile", "ann", NoId, Zero, OK)
    /\ \E id \in FileIds :
          /\ files[id].exists
          /\ files[id].owner = "ann"
          /\ files[id].sharedWith = {"bob"}
          /\ hasAccess(id, "bob")
          /\ ~hasAccess(id, Deployer)

\* C29: getFile(id) returns the content hash, the owner and the timestamp
\* the record was given by uploadFile exactly when the record exists and the
\* caller is its owner or in its sharing set; it fails with the not-found
\* error when the record does not exist and with the no-access error when it
\* exists and the caller is neither; it changes nothing.
C29_GetFile ==
    [][storageLast'.op # "getFile" \/
       \A s \in Principals, id \in FileIds :
          getFile(s, id) =>
             /\ IF ~files[id].exists THEN storageLast'.result = ErrNoFile
                ELSE IF files[id].owner # s /\ s \notin files[id].sharedWith
                THEN storageLast'.result = ErrNoAccess
                ELSE /\ storageLast'.result = OK
                     /\ \E h \in RootHashes, o \in Uploaders, t \in Times :
                           /\ id = fileId(h, o, t)
                           /\ storageLast'.returned = <<h, o, t>>
             /\ UNCHANGED storageVars]_vars

\* bob, with whom ann shared her file, read it; the gate is paused
C29_Witness ==
    /\ storageLast.op = "getFile"
    /\ storageLast.sender = "bob"
    /\ storageLast.result = OK
    /\ storageLast.returned[2] = "ann"
    /\ "bob" \in files[storageLast.id].sharedWith
    /\ storagePaused

\* what canStoreData(p, size) is said to answer
CanStoreOf(p, size) ==
    /\ users[p].isRegistered
    /\ users[p].usedStorage + size <= users[p].storageLimit

\* the example: the quota is 1000 and the recorded usage 500
QuotaExample(p) ==
    /\ users[p].isRegistered
    /\ users[p].storageLimit = 1000
    /\ users[p].usedStorage = 500

\* C30, as stated: canStoreData(p, size) returns false for an unregistered p
\* and otherwise exactly (usedStorage(p) + size <= storageLimit(p)), for
\* every size, and changes nothing; with quota 1000 and usage 500 it returns
\* true for size 500 and false for size 600.
C30_CanStoreData ==
    [][registryLast'.op # "canStoreData" \/
       \A p \in Principals, size \in QuotaInputs :
          canStoreDataCall(p, size) =>
             /\ registryLast'.result = OK
             /\ registryLast'.returned = CanStoreOf(p, size)
             /\ QuotaExample(p) /\ size = 500 => registryLast'.returned = TRUE
             /\ QuotaExample(p) /\ size = 600 => registryLast'.returned = FALSE
             /\ UNCHANGED registryVars]_vars

\* C30, amended: the same for every size for which usedStorage(p) + size
\* fits in a uint256; for a registered p and a larger size the call reverts
\* with the overflow panic; in every case nothing changes.
C30_CanStoreDataUnlessOverflow ==
    [][registryLast'.op # "canStoreData" \/
       \A p \in Principals, size \in QuotaInputs :
          canStoreDataCall(p, size) =>
             /\ IF users[p].isRegistered /\ users[p].usedStorage + size > MaxUint
                THEN registryLast'.result = ErrOverflow
                ELSE /\ registryLast'.result = OK
                     /\ registryLast'.returned = CanStoreOf(p, size)
             /\ QuotaExample(p) /\ size = 500 => registryLast'.returned = TRUE
             /\ QuotaExample(p) /\ size = 600 => registryLast'.returned = FALSE
             /\ UNCHANGED registryVars]_vars

\* ann, registered with the default quota 1000 and with a recorded usage of
\* 500, was refused 600
C30_Witness ==
    /\ registryLast.op = "canStoreData"
    /\ registryLast.user = "ann"
    /\ registryLast.size = 600
    /\ registryLast.result = OK
    /\ registryLast.returned = FALSE
    /\ defaultStorageLimit = 1000
    /\ QuotaExample("ann")

\* C31: updateUsedStorage(p, newUsed) for an unregistered p, or with newUsed
\* above storageLimit(p), fails and changes no profile and nothing else of
\* the registry; a call that succeeds sets usedStorage(p) to newUsed itself,
\* whatever it was before, and changes nothing else.
C31_UpdateUsedStorage ==
    [][registryLast'.op # "updateUsedStorage" \/
       \A s \in Principals, p \in Registrants, n \in QuotaInputs :
          updateUsedStorage(s, p, n) =>
             IF ~users[p].isRegistered \/ n > users[p].storageLimit
             THEN /\ registryLast'.result # OK
                  /\ UNCHANGED registryVars
             ELSE IF registryLast'.result = OK
             THEN /\ users' = [users EXCEPT ![p].usedStorage = n]
                  /\ UNCHANGED <<usernameToAddress, defaultStorageLimit, registryPaused,
                                 registryRoles>>
             ELSE UNCHANGED registryVars]_vars

\* the verifier was refused a usage above ann's limit, and the usage recorded
\* before stays
C31_Witness ==
    /\ registryLast.op = "updateUsedStorage"
    /\ registryLast.result = ErrLimitExceeded
    /\ users["ann"].usedStorage = 500
    /\ users["ann"].storageLimit = 500
    /\ users["bob"].isRegistered
    /\ users["bob"].usedStorage = 1000

\* C32: updateDefaultStorageLimit changes no profile: the limit and the usage
\* of every registered principal stay as they were; and every register that
\* succeeds creates one profile, whose limit is the default limit at the time
\* of that call and whose usage is 0.
C32_DefaultLimitForFutureOnly ==
    [][/\ registryLast'.op = "updateDefaultStorageLimit" =>
             /\ users' = users
             /\ usernameToAddress' = usernameToAddress
       /\ registryLast'.op # "register" \/ registryLast'.result # OK \/
             \A s \in Registrants, u \in UsernameInputs :
                register(s, u) =>
                   /\ defaultStorageLimit' = defaultStorageLimit
                   /\ ~users[s].isRegistered
                   /\ users'[s].isRegistered
                   /\ users'[s].storageLimit = defaultStorageLimit
                   /\ users'[s].usedStorage = 0
                   /\ \A q \in Principals \ {s} : users'[q] = users[q]]_vars

\* bob registered after the default limit was lowered to 0; ann, registered
\* under the default 1, keeps her limit and her recorded usage
C32_Witness ==
    /\ registryLast.op = "register"
    /\ registryLast.result = OK
    /\ defaultStorageLimit = 0
    /\ users["bob"].isRegistered
    /\ users["bob"].storageLimit = 0
    /\ users["bob"].usedStorage = 0
    /\ users["ann"].isRegistered
    /\ users["ann"].storageLimit = 1
    /\ users["ann"].usedStorage = 1

\* what an observer of the fee ledger is to know: the fee configuration, the
\* treasury, the discount set, the discount percentage and the ether held
FeesObserved ==
    [feeConfig |-> feeConfig, treasury |-> treasury,
     discountedUsers |-> discountedUsers,
     discountPercentage |-> discountPercentage, held |-> balance[Ledger]]

\* the effect of one event of OGFees on what the observer knows
ApplyFeesEvent(s, e) ==
    IF e[1] = "FeeConfigUpdated" THEN [s EXCEPT !.feeConfig = e[2]]
    ELSE IF e[1] = "TreasuryUpdated" THEN [s EXCEPT !.treasury = e[3]]
    ELSE IF e[1] = "DiscountedUserAdded"
    THEN [s EXCEPT !.discountedUsers = @ \cup {e[2]}]
    ELSE IF e[1] = "DiscountedUserRemoved"
    THEN [s EXCEPT !.discountedUsers = @ \ {e[2]}]
    ELSE IF e[1] = "DiscountPercentageUpdated"
    THEN [s EXCEPT !.discountPercentage = e[3]]
    ELSE IF e[1] = "FeeCollected" THEN [s EXCEPT !.held = @ + e[3]]
    ELSE IF e[1] = "FeeDistributed" THEN [s EXCEPT !.held = @ - e[3]]
    ELSE s

\* the state the observer reconstructs from the log, starting from what
\* initialize was called with
RECURSIVE ReplayFees(_)
ReplayFees(log) ==
    IF log = <<>>
    THEN [feeConfig |-> [baseStorageFee |-> 1, networkFee |-> 0, sharingFee |-> 1,
                         minimumFee |-> 2],
          treasury |-> "bob", discountedUsers |-> {}, discountPercentage |-> 50,
          held |-> 0]
    ELSE ApplyFeesEvent(ReplayFees(SubSeq(log, 1, Len(log) - 1)), log[Len(log)])

\* C33, for the fee ledger: the events emitted determine the state: whenever
\* no call is in progress, the fee configuration, the treasury, the discount
\* set, the discount percentage and the ether held are what the events alone
\* give, so that two executions with the same events agree on them.
C33_EventsDetermineState ==
    feesStack = <<>> => FeesObserved = ReplayFees(feesEvents)

\* the same without the ether held: configuration, treasury, discount set
\* and discount percentage follow from the events
C33_EventsDetermineConfig ==
    feesStack = <<>> =>
        [FeesObserved EXCEPT !.held = 0] = [ReplayFees(feesEvents) EXCEPT !.held = 0]

\* the call of OGFees just made was refused and changed nothing; a caller
\* that holds the role of the function was refused with the error err
FeesRefused(role, sender, err) ==
    /\ feesLast'.result # OK
    /\ hasFeesRole(role, sender) => feesLast'.result = err
    /\ UNCHANGED feesVars

\* C34: in every state of the initialized fee ledger discountPercentage is at
\* most 100 and the treasury is not address(0); initialize and
\* updateDiscountPercentage with a percentage above 100, and initialize and
\* updateTreasury with address(0), are refused with no change;
\* addDiscountedUser of a discounted account and removeDiscountedUser of an
\* account that is not discounted are refused with no change (with the
\* conflict and the not-found error for a caller that holds the role).
C34_FeeInvariants ==
    [][/\ initialized'["OGFees"] =>
             /\ discountPercentage' \in 0..100
             /\ treasury' # Zero
       /\ feesLast'.op # "initialize" \/
             \A s \in GateSenders, t \in TreasuryInputs, c \in FeeConfigInputs,
                   p \in PercentageInputs :
                (feesInitialize(s, t, c, p) /\ (t = Zero \/ p > 100)) =>
                    /\ feesLast'.result # OK
                    /\ UNCHANGED <<feesVars, initialized>>
       /\ feesLast'.op # "updateDiscountPercentage" \/
             \A s \in GateSenders, p \in PercentageInputs :
                (updateDiscountPercentage(s, p) /\ p > 100) =>
                    FeesRefused(ADMIN_ROLE, s, "Invalid discount percentage")
       /\ feesLast'.op # "updateTreasury" \/
             \A s \in GateSenders :
                updateTreasury(s, Zero) =>
                    FeesRefused(ADMIN_ROLE, s, "Invalid treasury address")
       /\ feesLast'.op # "addDiscountedUser" \/
             \A s \in GateSenders, u \in GateSenders :
                (addDiscountedUser(s, u) /\ u \in discountedUsers) =>
                    FeesRefused(FEE_MANAGER_ROLE, s, "Already a discounted user")
       /\ feesLast'.op # "removeDiscountedUser" \/
             \A s \in GateSenders, u \in GateSenders :
                (removeDiscountedUser(s, u) /\ u \notin discountedUsers) =>
                    FeesRefused(FEE_MANAGER_ROLE, s, "Not a discounted user")]_vars

\* the fee manager was refused a second addDiscountedUser(ann), at the
\* percentage 100 and with ann as the treasury
C34_Witness ==
    /\ initialized["OGFees"]
    /\ feesLast = FeesCall("addDiscountedUser", "Already a discounted user")
    /\ discountedUsers = {"ann"}
    /\ discountPercentage = 100
    /\ treasury = "ann"

\* the entries of all the owner-index lists: the owner and the position
ownerIndexEntries ==
    UNION {{<<p, i>> : i \in DOMAIN userFiles[p]} : p \in Principals}

\* C35: getTotalFiles() is the number of the records that exist, which is the
\* number of the entries of all the owner-index lists; no list holds an id
\* twice; and deleteFile is never refused for a counter at zero.
C35_CounterIsRecords ==
    /\ fileCounter = Cardinality({id \in FileIds : files[id].exists})
    /\ fileCounter = Cardinality(ownerIndexEntries)
    /\ \A p \in Principals : \A i, j \in DOMAIN userFiles[p] :
          userFiles[p][i] = userFiles[p][j] => i = j
    /\ storageLast.result # ErrCounter

\* bob deleted his file while ann's stays: the counter went from 2 to 1
C35_Witness ==
    /\ storageLast.op = "deleteFile"
    /\ storageLast.sender = "bob"
    /\ storageLast.result = OK
    /\ fileCounter = 1
    /\ Len(userFiles["ann"]) = 1
    /\ userFiles["bob"] = <<>>
    /\ Cardinality(deleted) = 1

\* getAddressByUsername(u) returns p exactly when p is registered with the
\* username u
UsernameIndexConsistent ==
    \A u \in UsernameInputs, p \in Principals :
        (getAddressByUsername(u).result = OK /\ getAddressByUsername(u).returned = p)
            <=> (users[p].isRegistered /\ users[p].username = u)

\* C36: in every state getAddressByUsername(u) returns p exactly when p is
\* registered with username u; and whatever is called, a registered
\* principal stays registered and keeps its username and its registration
\* date.
C36_UsernameIndex ==
    [][/\ UsernameIndexConsistent
       /\ UsernameIndexConsistent'
       /\ \A p \in Principals :
             users[p].isRegistered =>
                /\ users'[p].isRegistered
                /\ users'[p].username = users[p].username
                /\ users'[p].registrationDate = users[p].registrationDate]_vars

\* ann registered as alice at time 1 and bob as bobby at time 2; since then
\* ann's limit was changed, and the index still answers ann for alice
C36_Witness ==
    /\ registryLast = RegistryCall("updateStorageLimit", Deployer, OK)
    /\ users["ann"].isRegistered
    /\ users["ann"].username = "alice"
    /\ users["ann"].registrationDate = 1
    /\ users["bob"].isRegistered
    /\ users["bob"].registrationDate = 2
    /\ getAddressByUsername("alice").returned = "ann"
    /\ getAddressByUsername("bobby").returned = "bob"

\* C37: a record that exists before and after a step has the same owner,
\* content hash and timestamp; a shareFile or unshareFile call changes at
\* most the sharing set of one record; and the owner of a record that exists
\* has access to it, whoever was shared or unshared (the owner included).
C37_RecordImmutable ==
    [][/\ \A id \in FileIds :
             (files[id].exists /\ files'[id].exists) =>
                /\ files'[id].owner = files[id].owner
                /\ files'[id].rootHash = files[id].rootHash
                /\ files'[id].timestamp = files[id].timestamp
       /\ storageLast'.op \in {"shareFile", "unshareFile"} =>
             \E id \in FileIds : OnlySharingOf(id)
       /\ \A id \in FileIds :
             files'[id].exists => hasAccess(id, files[id].owner)']_vars

\* ann, who had shared her file with every account and with herself, has
\* unshared herself, and the file is hers
C37_Witness ==
    /\ storageLast.op = "unshareFile"
    /\ storageLast.sender = "ann"
    /\ storageLast.result = OK
    /\ \E id \in FileIds :
          /\ files[id].exists
          /\ files[id].owner = "ann"
          /\ files[id].sharedWith = Principals \ {"ann"}
          /\ hasAccess(id, "ann")
    /\ fileCounter = 1

\* the uploadFile call c of the hook returns in this step
HookCallFinishes(c) == hook.pc[c] # "done" /\ hook'.pc[c] = "done"

\* C38: when an uploadFile call of the hook finishes, on whatever path,
\* loading is false; when it returns null the error is not empty and
\* uploadStatus is ''; and a call whose storage upload succeeded does not
\* return null, whether the on-chain verification failed or not.
C38_UploadLeavesLoadingFalse ==
    [][\A c \in HookCalls :
          HookCallFinishes(c) =>
             /\ hook'.loading = FALSE
             /\ hook'.returned[c] = Null =>
                    /\ hook'.error # Str(<<>>)
                    /\ hook'.uploadStatus = ""
             /\ hook'.stored[c] => hook'.returned[c] # Null]_vars

\* the same for the calls that got past the check of zgFile
C38_StartedUploadLeavesLoadingFalse ==
    [][\A c \in HookCalls :
          (HookCallFinishes(c) /\ hook.pc[c] # "idle") =>
             /\ hook'.loading = FALSE
             /\ hook'.returned[c] = Null =>
                    /\ hook'.error # Str(<<>>)
                    /\ hook'.uploadStatus = ""
             /\ hook'.stored[c] => hook'.returned[c] # Null]_vars

\* a tag is '0x' followed by a non-empty string of hex digits of even length
TagWellFormed(tag) ==
    /\ Len(tag) > 2
    /\ tag[1] = "0" /\ tag[2] = "x"
    /\ (Len(tag) - 2) % 2 = 0
    /\ \A i \in 3..Len(tag) : \E d \in DOMAIN HexDigits : tag[i] = HexDigits[d]

\* C39: no two calls of generateUniqueTag (or of the same construction in
\* createSubmission) return the same tag, and every tag returned is '0x'
\* followed by a non-empty, even-length string of hex digits.
C39_TagsUnique ==
    /\ \A i, j \in DOMAIN tags : tags[i] = tags[j] => i = j
    /\ \A i \in DOMAIN tags : TagWellFormed(tags[i])

\* the second half alone: every tag returned is well formed
C39_TagsWellFormed ==
    \A i \in DOMAIN tags : TagWellFormed(tags[i])

====
